---------------------------- MODULE Spec2Model ----------------------------
(***************************************************************************)
(* A model of psp-packer: the byte-overlay framework of src/src/utils.rs,  *)
(* the ELF records of src/src/elf.rs and the packing pipeline              *)
(* UnkPspExecutable::compress_impl of src/src/psp.rs.                      *)
(*                                                                         *)
(* Buffers are sequences of bytes (0..255) with the layouts the structs    *)
(* declare.  A u16 is a natural number; a u32 is a pair <<hi, lo>> of its  *)
(* two 16-bit halves, so that values with the top bit set (kernel          *)
(* addresses, the tags) stay exact; a usize is a natural number.           *)
(***************************************************************************)
EXTENDS Integers, Sequences, FiniteSets, TLC

(***************************************************************************)
(* Integers and their little-endian encodings                              *)
(***************************************************************************)

\* A u32 written as in the source, 0xHHHHLLLL, from its halves.
H32(hi, lo) == <<hi, lo>>

\* `x as usize` for a u32 x.  Values of 2^30 and more saturate at 2^30:
\* every buffer of the model is far shorter, so each bounds check made with
\* the result has the outcome the exact value gives.
AsUsize(u) == IF u[1] >= 16384 THEN 1073741824 ELSE u[1] * 65536 + u[2]

\* `n as u32` for a usize n.
AsU32(n) == <<(n \div 65536) % 65536, n % 65536>>

\* `(x & 0x80000000) != 0`
TopBitSet(u) == u[1] >= 32768

\* `x & 0x7FFFFFFF`
ClearTopBit(u) == <<u[1] % 32768, u[2]>>

\* `a - b` on u32 with wrap-around (the release profile's arithmetic).
WrappingSubU32(a, b) ==
    LET borrow == IF a[2] < b[2] THEN 1 ELSE 0
    IN  <<(a[1] - b[1] - borrow + 65536) % 65536, (a[2] - b[2] + 65536) % 65536>>

\* a < b on u32
LessU32(a, b) == a[1] < b[1] \/ (a[1] = b[1] /\ a[2] < b[2])

LE16(n) == <<n % 256, (n \div 256) % 256>>
LE32(u) == LE16(u[2]) \o LE16(u[1])

\* Reads at a 0-based offset of a buffer.
ReadU8(buf, off) == buf[off + 1]
ReadU16(buf, off) == buf[off + 1] + 256 * buf[off + 2]
ReadU32(buf, off) == <<ReadU16(buf, off + 2), ReadU16(buf, off)>>
ReadBytes(buf, off, n) == SubSeq(buf, off + 1, off + n)

Zeros(n) == [i \in 1..n |-> 0]

\* bitflag `contains`: every bit of flag is set in attr.
RECURSIVE BitAnd(_, _)
BitAnd(a, b) ==
    IF a = 0 \/ b = 0 THEN 0
    ELSE (a % 2) * (b % 2) + 2 * BitAnd(a \div 2, b \div 2)

RECURSIVE BitOr(_, _)
BitOr(a, b) ==
    IF a = 0 THEN b
    ELSE IF b = 0 THEN a
    ELSE (IF a % 2 = 1 \/ b % 2 = 1 THEN 1 ELSE 0) + 2 * BitOr(a \div 2, b \div 2)

(***************************************************************************)
(* Results, options, errors                                                *)
(***************************************************************************)

Ok(v) == [ok |-> TRUE, val |-> <<v>>, err |-> <<>>]
Err(e) == [ok |-> FALSE, val |-> <<>>, err |-> <<e>>]
Val(r) == r.val[1]
ErrOf(r) == r.err[1]

None == <<>>
Some(v) == <<v>>

\* `opt.ok_or(e)`
ok_or(opt, e) == IF opt = None THEN Err(e) ELSE Ok(opt[1])

\* `r?` followed by the rest of the function, F, on the value of r; also
\* Result::and_then.  A failure of r is the function's result.
AndThen(r, F(_)) == IF r.ok THEN F(Val(r)) ELSE r

\* src/src/error.rs: the error kinds; FromBytes and Alignment carry data.
Error(kind) == [kind |-> kind]
ErrorFromBytes(input_len, expected_len) ==
    [kind |-> "FromBytes", input_len |-> input_len, expected_len |-> expected_len]
ErrorAlignment(align, addr) == [kind |-> "Alignment", align |-> align, addr |-> addr]

\* `slice.get(start..end)`: None unless start <= end <= len.
GetRange(buf, start, end) ==
    IF start <= end /\ end <= Len(buf) THEN Some(SubSeq(buf, start + 1, end)) ELSE None

\* `slice.get(start..)`
GetFrom(buf, start) ==
    IF start <= Len(buf) THEN Some(SubSeq(buf, start + 1, Len(buf))) ELSE None

\* `slice.get(..end)`
GetTo(buf, end) ==
    IF end <= Len(buf) THEN Some(SubSeq(buf, 1, end)) ELSE None

(***************************************************************************)
(* The fixed-layout records: src/src/elf.rs and src/src/psp.rs             *)
(***************************************************************************)

\* Width of a `*mut c_void` on the host the packer is built for.
PointerWidth == 8

PSP_HEADER_MAGIC == H32(\H5053, \H507E)
PBP_HEADER_MAGIC == H32(\H5042, \H5000)
ELF_MAGIC == H32(\H464C, \H457F)
ELF_TYPE_PRX == \HFFA0

\* ModInfoAttribute
KernelMode == \H1000
BootMode == \H2000
VshAPI == \H0800
AppAPI == \H0600
UsbWlanAPI == \H0400
MsAPI == \H0200

contains(attr, flag) == BitAnd(attr, flag) = flag

\* DecryptMode
DecryptKernel == 2
DecryptVsh == 3
DecryptStandard == 4
DecryptUpdater == 12
DecryptApp == 14
DecryptUsbWlan == 10
DecryptMs == 13

\* size_of::<T>(), the sum of the widths of T's fields (no record has padding).
size_of(T) ==
    CASE T = "Elf32Ehdr" -> 4 + 1 + 1 + 1 + 9 + 2 + 2 + 4 + 4 + 4 + 4 + 4 + 2 + 2 + 2 + 2 + 2 + 2
      [] T = "Elf32Phdr" -> 8 * 4
      [] T = "Elf32Shdr" -> 10 * 4
      [] T = "PbpHeader" -> 10 * 4
      [] T = "SceModuleInfo" -> 2 + 1 + 1 + 27 + 1 + 5 * PointerWidth
      [] T = "PspHeader" ->
            4 + 2 + 2 + 1 + 1 + 28 + 1 + 1 + 4 + 4 + 4 + 4 + 4 + 4 * 2 + 4 * 4 + 4 * 4
            + 5 * 4 + 4 + 1 + 1 + 2 + 48 + 4 + 4 + 2 * 4 + 16 + 4 + 88 + 4 + 4 + 28

\* align_of with every record aligned as its u32 fields are.
align_of_Word(T) == 4

\* align_of::<T>(): the widest field; SceModuleInfo holds pointers.
align_of(T) ==
    CASE T = "SceModuleInfo" -> IF PointerWidth > 4 THEN PointerWidth ELSE 4
      [] OTHER -> 4

\* The value a range of size_of(T) bytes holds, read as a T (`ptr.read()`).
ReadElf32Ehdr(b) ==
    [e_magic |-> ReadU32(b, 0), e_class |-> ReadU8(b, 4), e_data |-> ReadU8(b, 5),
     e_idver |-> ReadU8(b, 6), pad |-> ReadBytes(b, 7, 9), e_type |-> ReadU16(b, 16),
     e_machine |-> ReadU16(b, 18), e_version |-> ReadU32(b, 20),
     e_entry |-> ReadU32(b, 24), e_phoff |-> ReadU32(b, 28), e_shoff |-> ReadU32(b, 32),
     e_flags |-> ReadU32(b, 36), e_ehsize |-> ReadU16(b, 40),
     e_phentsize |-> ReadU16(b, 42), e_phnum |-> ReadU16(b, 44),
     e_shentsize |-> ReadU16(b, 46), e_shnum |-> ReadU16(b, 48),
     e_shstrndx |-> ReadU16(b, 50)]

ReadElf32Phdr(b) ==
    [p_type |-> ReadU32(b, 0), p_offset |-> ReadU32(b, 4), p_vaddr |-> ReadU32(b, 8),
     p_paddr |-> ReadU32(b, 12), p_filesz |-> ReadU32(b, 16), p_memsz |-> ReadU32(b, 20),
     p_flags |-> ReadU32(b, 24), p_align |-> ReadU32(b, 28)]

ReadElf32Shdr(b) ==
    [sh_name |-> ReadU32(b, 0), sh_type |-> ReadU32(b, 4), sh_flags |-> ReadU32(b, 8),
     sh_addr |-> ReadU32(b, 12), sh_offset |-> ReadU32(b, 16), sh_size |-> ReadU32(b, 20),
     sh_link |-> ReadU32(b, 24), sh_info |-> ReadU32(b, 28),
     sh_addralign |-> ReadU32(b, 32), sh_entsize |-> ReadU32(b, 36)]

ReadPbpHeader(b) ==
    [magic |-> ReadU32(b, 0), version |-> ReadU32(b, 4), sfo_offset |-> ReadU32(b, 8),
     icon0_offset |-> ReadU32(b, 12), icon1_offset |-> ReadU32(b, 16),
     pic0_offset |-> ReadU32(b, 20), pic1_offset |-> ReadU32(b, 24),
     snd0_offset |-> ReadU32(b, 28), prx_offset |-> ReadU32(b, 32),
     psar_offset |-> ReadU32(b, 36)]

\* The five pointers are kept as the bytes they occupy.
ReadSceModuleInfo(b) ==
    [mod_attr |-> ReadU16(b, 0), mod_version_low |-> ReadU8(b, 2),
     mod_version_high |-> ReadU8(b, 3), mod_name |-> ReadBytes(b, 4, 27),
     terminal |-> ReadU8(b, 31), pointers |-> ReadBytes(b, 32, 5 * PointerWidth)]

ReadAs(T, b) ==
    CASE T = "Elf32Ehdr" -> ReadElf32Ehdr(b)
      [] T = "Elf32Phdr" -> ReadElf32Phdr(b)
      [] T = "Elf32Shdr" -> ReadElf32Shdr(b)
      [] T = "PbpHeader" -> ReadPbpHeader(b)
      [] T = "SceModuleInfo" -> ReadSceModuleInfo(b)

\* TryFromBytes::validate of each record: None, or the record's own error.
validate(T, rec) ==
    CASE T = "Elf32Ehdr" -> IF rec.e_magic # ELF_MAGIC THEN Some(Error("NotElf")) ELSE None
      [] T = "PbpHeader" -> IF rec.magic # PBP_HEADER_MAGIC THEN Some(Error("NotPbp")) ELSE None
      [] OTHER -> None

\* AsBytes::as_bytes of a SceModuleInfo.
SceModuleInfoBytes(m) ==
    LE16(m.mod_attr) \o <<m.mod_version_low, m.mod_version_high>> \o m.mod_name
    \o <<m.terminal>> \o m.pointers

(***************************************************************************)
(* The byte-overlay framework: src/src/utils.rs                            *)
(***************************************************************************)

\* split_bytes with the two lengths of the error exchanged.
split_bytes_LengthsExchanged(bytes, expected_byte_len) ==
    IF expected_byte_len <= Len(bytes)
    THEN Ok(SubSeq(bytes, 1, expected_byte_len))
    ELSE Err(ErrorFromBytes(expected_byte_len, Some(Len(bytes))))

\* split_bytes / split_mut_bytes: the head of expected_byte_len bytes.
split_bytes(bytes, expected_byte_len) ==
    IF expected_byte_len <= Len(bytes)
    THEN Ok(SubSeq(bytes, 1, expected_byte_len))
    ELSE Err(ErrorFromBytes(Len(bytes), Some(expected_byte_len)))

\* `Self::validate(&res)?; Ok(res)`
Validated(T, res) == IF validate(T, res) # None THEN Err(validate(T, res)[1]) ELSE Ok(res)

\* The same for each element in order: the first rejection is the error.
ValidatedAll(T, elems) ==
    LET bad == {i \in 1..Len(elems) : validate(T, elems[i]) # None}
    IN  IF bad = {} THEN Ok(elems)
        ELSE Err(validate(T, elems[CHOOSE i \in bad : \A j \in bad : i <= j])[1])

\* TryFromBytes::from_bytes: an owned copy, aligned or not.
from_bytes(T, src) ==
    AndThen(split_bytes(src, size_of(T)), LAMBDA head : Validated(T, ReadAs(T, head)))

\* TryFromBytes::from_bytes_with_elems: count owned copies.
from_bytes_with_elems(T, src, count) ==
    AndThen(split_bytes(src, size_of(T) * count), LAMBDA head :
        ValidatedAll(T, [i \in 1..count |->
                            ReadAs(T, ReadBytes(head, (i - 1) * size_of(T), size_of(T)))]))

\* TryFromBytes::ref_from_bytes / mut_from_bytes: a view of the range that
\* starts at address addr; the length check precedes the alignment check.
ref_from_bytes(T, src, addr) ==
    AndThen(split_bytes(src, size_of(T)), LAMBDA head :
        IF addr % align_of(T) # 0 THEN Err(ErrorAlignment(align_of(T), addr))
        ELSE Validated(T, ReadAs(T, head)))

\* TryFromBytes::ref_from_bytes_with_elems: a view of count records.
ref_from_bytes_with_elems(T, src, count, addr) ==
    AndThen(split_bytes(src, size_of(T) * count), LAMBDA head :
        IF addr % align_of(T) # 0 THEN Err(ErrorAlignment(align_of(T), addr))
        ELSE ValidatedAll(T, [i \in 1..count |->
                                ReadAs(T, ReadBytes(head, (i - 1) * size_of(T), size_of(T)))]))

\* TryFromBytes::mut_from_bytes: ref_from_bytes on a mutable range.
mut_from_bytes(T, src, addr) ==
    AndThen(split_bytes(src, size_of(T)), LAMBDA head :
        IF addr % align_of(T) # 0 THEN Err(ErrorAlignment(align_of(T), addr))
        ELSE Validated(T, ReadAs(T, head)))

\* TryFromBytes::mut_from_bytes_with_elems
mut_from_bytes_with_elems(T, src, count, addr) ==
    AndThen(split_bytes(src, size_of(T) * count), LAMBDA head :
        IF addr % align_of(T) # 0 THEN Err(ErrorAlignment(align_of(T), addr))
        ELSE ValidatedAll(T, [i \in 1..count |->
                                ReadAs(T, ReadBytes(head, (i - 1) * size_of(T), size_of(T)))]))

\* AsBytes::as_bytes of the records read from a file: the fields in
\* declaration order.
RecordBytes(T, r) ==
    CASE T = "Elf32Ehdr" ->
            LE32(r.e_magic) \o <<r.e_class, r.e_data, r.e_idver>> \o r.pad
            \o LE16(r.e_type) \o LE16(r.e_machine) \o LE32(r.e_version) \o LE32(r.e_entry)
            \o LE32(r.e_phoff) \o LE32(r.e_shoff) \o LE32(r.e_flags) \o LE16(r.e_ehsize)
            \o LE16(r.e_phentsize) \o LE16(r.e_phnum) \o LE16(r.e_shentsize)
            \o LE16(r.e_shnum) \o LE16(r.e_shstrndx)
      [] T = "Elf32Phdr" ->
            LE32(r.p_type) \o LE32(r.p_offset) \o LE32(r.p_vaddr) \o LE32(r.p_paddr)
            \o LE32(r.p_filesz) \o LE32(r.p_memsz) \o LE32(r.p_flags) \o LE32(r.p_align)
      [] T = "Elf32Shdr" ->
            LE32(r.sh_name) \o LE32(r.sh_type) \o LE32(r.sh_flags) \o LE32(r.sh_addr)
            \o LE32(r.sh_offset) \o LE32(r.sh_size) \o LE32(r.sh_link) \o LE32(r.sh_info)
            \o LE32(r.sh_addralign) \o LE32(r.sh_entsize)
      [] T = "PbpHeader" ->
            LE32(r.magic) \o LE32(r.version) \o LE32(r.sfo_offset) \o LE32(r.icon0_offset)
            \o LE32(r.icon1_offset) \o LE32(r.pic0_offset) \o LE32(r.pic1_offset)
            \o LE32(r.snd0_offset) \o LE32(r.prx_offset) \o LE32(r.psar_offset)
      [] T = "SceModuleInfo" -> SceModuleInfoBytes(r)

\* A failed run of the packer that is no Error value: a Rust panic.
Panic == [ok |-> FALSE, val |-> <<>>, err |-> <<>>]
IsPanic(r) == ~r.ok /\ r.err = <<>>

(***************************************************************************)
(* The output header: src/src/psp.rs, PspHeader                            *)
(***************************************************************************)

ZeroU32 == H32(0, 0)

\* PspHeader::default()
PspHeaderDefault ==
    [signature |-> PSP_HEADER_MAGIC, attribute |-> 0, comp_attribute |-> 0,
     module_version_low |-> 0, module_version_high |-> 0, module_name |-> Zeros(28),
     version |-> 1, num_segments |-> 0, elf_size |-> ZeroU32, psp_size |-> ZeroU32,
     entry |-> ZeroU32, module_info_offset |-> ZeroU32, bss_size |-> ZeroU32,
     seg_align |-> <<0, 0, 0, 0>>,
     seg_addr |-> <<ZeroU32, ZeroU32, ZeroU32, ZeroU32>>,
     seg_size |-> <<ZeroU32, ZeroU32, ZeroU32, ZeroU32>>,
     reserved |-> Zeros(5 * 4), devkit_version |-> ZeroU32,
     decrypt_mode |-> DecryptStandard, padding |-> 0, overlap_size |-> 0,
     key_data0 |-> Zeros(48), comp_size |-> ZeroU32, unk_80 |-> H32(0, 128),
     reserved2 |-> Zeros(2 * 4), key_data1 |-> Zeros(16), tag |-> ZeroU32,
     scheck |-> Zeros(88), key_data2 |-> ZeroU32, oe_tag |-> ZeroU32,
     key_data3 |-> Zeros(28)]

\* AsBytes::as_bytes of a PspHeader: the fields in declaration order.
PspHeaderBytes(h) ==
    LE32(h.signature) \o LE16(h.attribute) \o LE16(h.comp_attribute)
    \o <<h.module_version_low, h.module_version_high>> \o h.module_name
    \o <<h.version, h.num_segments>> \o LE32(h.elf_size) \o LE32(h.psp_size)
    \o LE32(h.entry) \o LE32(h.module_info_offset) \o LE32(h.bss_size)
    \o LE16(h.seg_align[1]) \o LE16(h.seg_align[2]) \o LE16(h.seg_align[3])
    \o LE16(h.seg_align[4])
    \o LE32(h.seg_addr[1]) \o LE32(h.seg_addr[2]) \o LE32(h.seg_addr[3])
    \o LE32(h.seg_addr[4])
    \o LE32(h.seg_size[1]) \o LE32(h.seg_size[2]) \o LE32(h.seg_size[3])
    \o LE32(h.seg_size[4])
    \o h.reserved \o LE32(h.devkit_version) \o <<h.decrypt_mode, h.padding>>
    \o LE16(h.overlap_size) \o h.key_data0 \o LE32(h.comp_size) \o LE32(h.unk_80)
    \o h.reserved2 \o h.key_data1 \o LE32(h.tag) \o h.scheck \o LE32(h.key_data2)
    \o LE32(h.oe_tag) \o h.key_data3

\* set_decript_mode with the App and UsbWlan tests of a container in the
\* other order.
set_decript_mode_UsbWlanFirst(h, is_pbp) ==
    IF contains(h.attribute, KernelMode)
    THEN [h EXCEPT !.devkit_version =
                       IF contains(h.attribute, BootMode)
                       THEN H32(\H0606, \H0110) ELSE H32(\H0507, \H0110),
                   !.decrypt_mode = DecryptKernel]
    ELSE IF is_pbp
    THEN IF contains(h.attribute, VshAPI) THEN [h EXCEPT !.decrypt_mode = DecryptUpdater]
         ELSE IF contains(h.attribute, UsbWlanAPI)
         THEN [h EXCEPT !.decrypt_mode = DecryptUsbWlan]
         ELSE IF contains(h.attribute, AppAPI) THEN [h EXCEPT !.decrypt_mode = DecryptApp]
         ELSE [h EXCEPT !.attribute = BitOr(h.attribute, MsAPI),
                        !.decrypt_mode = DecryptMs,
                        !.devkit_version = H32(\H0602, \H0010)]
    ELSE IF contains(h.attribute, VshAPI) THEN [h EXCEPT !.decrypt_mode = DecryptVsh]
         ELSE [h EXCEPT !.devkit_version = H32(\H0507, \H0210),
                        !.decrypt_mode = DecryptStandard]

\* PspHeader::set_decript_mode
set_decript_mode(h, is_pbp) ==
    IF contains(h.attribute, KernelMode)
    THEN [h EXCEPT !.devkit_version =
                       IF contains(h.attribute, BootMode)
                       THEN H32(\H0606, \H0110) ELSE H32(\H0507, \H0110),
                   !.decrypt_mode = DecryptKernel]
    ELSE IF is_pbp
    THEN IF contains(h.attribute, VshAPI) THEN [h EXCEPT !.decrypt_mode = DecryptUpdater]
         ELSE IF contains(h.attribute, AppAPI) THEN [h EXCEPT !.decrypt_mode = DecryptApp]
         ELSE IF contains(h.attribute, UsbWlanAPI)
         THEN [h EXCEPT !.decrypt_mode = DecryptUsbWlan]
         ELSE [h EXCEPT !.attribute = BitOr(h.attribute, MsAPI),
                        !.decrypt_mode = DecryptMs,
                        !.devkit_version = H32(\H0602, \H0010)]
    ELSE IF contains(h.attribute, VshAPI) THEN [h EXCEPT !.decrypt_mode = DecryptVsh]
         ELSE [h EXCEPT !.devkit_version = H32(\H0507, \H0210),
                        !.decrypt_mode = DecryptStandard]

\* ExecutableKind
is_prx(kind) == kind \in {"KernelPrx", "UserPrx"}
is_pbp(kind) == kind = "Pbp"

default_psp_tag_handler(kind) ==
    CASE kind = "UserPrx" -> H32(\H457B, \H06F0)
      [] kind = "KernelPrx" -> H32(\HDADA, \HDAF0)
      [] kind = "Pbp" -> H32(\HADF3, \H05F0)

\* default_oe_tag_handler with the two module kinds' tags exchanged.
default_oe_tag_handler_Exchanged(kind) ==
    CASE kind = "UserPrx" -> H32(\H5566, \H8D96)
      [] kind = "KernelPrx" -> H32(\H8555, \HABF2)
      [] kind = "Pbp" -> H32(\H7316, \H308C)

default_oe_tag_handler(kind) ==
    CASE kind = "UserPrx" -> H32(\H8555, \HABF2)
      [] kind = "KernelPrx" -> H32(\H5566, \H8D96)
      [] kind = "Pbp" -> H32(\H7316, \H308C)

\* Elf32Ehdr::is_prx
ehdr_is_prx(h) == h.e_type = ELF_TYPE_PRX

(***************************************************************************)
(* The locators: src/src/psp.rs                                            *)
(***************************************************************************)

\* The least element of a non-empty set of numbers.
Least(S) == CHOOSE i \in S : \A j \in S : i <= j

\* The loop of find_module_info_phdr: the first segment header of type 1
\* whose virtual and physical addresses differ.
FirstModuleInfoPhdr(phdrs) ==
    LET found == {i \in 1..Len(phdrs) :
                    phdrs[i].p_type = H32(0, 1) /\ phdrs[i].p_vaddr # phdrs[i].p_paddr}
    IN  IF found = {} THEN None ELSE Some(phdrs[Least(found)])

\* find_module_info_phdr
find_module_info_phdr(exec, elf_start) ==
    AndThen(ok_or(GetFrom(exec, elf_start), Error("FileTooSmall")), LAMBDA elf_slice :
    AndThen(from_bytes("Elf32Ehdr", elf_slice), LAMBDA elf_header :
    AndThen(ok_or(GetFrom(exec, elf_start + AsUsize(elf_header.e_phoff)),
                  Error("FileTooSmall")), LAMBDA phdr_slice :
    AndThen(from_bytes_with_elems("Elf32Phdr", phdr_slice, elf_header.e_phnum),
            LAMBDA phdrs : Ok(FirstModuleInfoPhdr(phdrs))))))

\* CStr::from_bytes_until_nul: the bytes before the first NUL, if there is one.
from_bytes_until_nul(bytes) ==
    LET nuls == {i \in 1..Len(bytes) : bytes[i] = 0}
    IN  IF nuls = {} THEN None ELSE Some(SubSeq(bytes, 1, Least(nuls) - 1))

\* `shdrs[e_shstrndx].sh_offset`: indexing panics when the index is no
\* section's.
StrtabOffset(elf_start, shdrs, e_shstrndx) ==
    IF e_shstrndx >= Len(shdrs) THEN Panic
    ELSE Ok([shdrs |-> shdrs,
             strtab_offset |-> elf_start + AsUsize(shdrs[e_shstrndx + 1].sh_offset)])

\* The section headers and the string table's offset, as find_segment
\* (lines 673-678) and read_segments_bss_info (lines 647-652) read them.
read_shdrs(exec, elf_start, elf_header) ==
    AndThen(ok_or(GetFrom(exec, elf_start + AsUsize(elf_header.e_shoff)),
                  Error("FileTooSmall")), LAMBDA shdr_slice :
    AndThen(from_bytes_with_elems("Elf32Shdr", shdr_slice, elf_header.e_shnum),
            LAMBDA shdrs : StrtabOffset(elf_start, shdrs, elf_header.e_shstrndx)))

\* Where the loop of find_segment ends: at the first section whose name
\* starts outside the file, has no terminator, or is seg_name.
FirstNamed(exec, shdrs, strtab_offset, seg_name) ==
    LET name(i) == GetFrom(exec, strtab_offset + AsUsize(shdrs[i].sh_name))
        stops == {i \in 1..Len(shdrs) :
                    \/ name(i) = None
                    \/ from_bytes_until_nul(name(i)[1]) \in {None, Some(seg_name)}}
    IN  IF stops = {} THEN Ok(None)
        ELSE IF name(Least(stops)) = None THEN Err(Error("BssNotFound"))
        ELSE IF from_bytes_until_nul(name(Least(stops))[1]) = None THEN Err(Error("CStr"))
        ELSE Ok(Some(shdrs[Least(stops)]))

\* find_segment: the first section whose NUL-terminated name is seg_name.
find_segment(exec, elf_start, seg_name) ==
    AndThen(ok_or(GetFrom(exec, elf_start), Error("FileTooSmall")), LAMBDA elf_slice :
    AndThen(from_bytes("Elf32Ehdr", elf_slice), LAMBDA elf_header :
    AndThen(read_shdrs(exec, elf_start, elf_header), LAMBDA sh :
        FirstNamed(exec, sh.shdrs, sh.strtab_offset, seg_name))))

\* `name == b".bss"` on the four bytes read at the name's start.
IsBssName(name) == name = <<46, 98, 115, 115>>

\* The first loop of read_segments_bss_info with the segments that are not
\* loadable (p_type other than 1) passed over.
WithSegments_LoadOnly(psp_header, phdrs) ==
    LET loads == SelectSeq(phdrs, LAMBDA ph : ph.p_type = H32(0, 1))
    IN  [psp_header EXCEPT
            !.seg_align = [i \in 1..4 |-> IF i <= Len(loads) THEN loads[i].p_align[2] ELSE @[i]],
            !.seg_addr = [i \in 1..4 |-> IF i <= Len(loads) THEN loads[i].p_vaddr ELSE @[i]],
            !.seg_size = [i \in 1..4 |-> IF i <= Len(loads) THEN loads[i].p_memsz ELSE @[i]]]

\* The first loop of read_segments_bss_info: the segment arrays from the
\* segment headers read, slot by slot.
WithSegments(psp_header, phdrs) ==
    [psp_header EXCEPT
        !.seg_align = [i \in 1..4 |-> IF i <= Len(phdrs) THEN phdrs[i].p_align[2] ELSE @[i]],
        !.seg_addr = [i \in 1..4 |-> IF i <= Len(phdrs) THEN phdrs[i].p_vaddr ELSE @[i]],
        !.seg_size = [i \in 1..4 |-> IF i <= Len(phdrs) THEN phdrs[i].p_memsz ELSE @[i]]]

\* The second loop of read_segments_bss_info: bss_size from the first section
\* whose name reads ".bss"; a name that ends outside the file ends the loop.
WithBssSize(exec, psp_header, shdrs, strtab_offset) ==
    LET name_start(i) == strtab_offset + AsUsize(shdrs[i].sh_name)
        name(i) == GetRange(exec, name_start(i), name_start(i) + 4)
        stops == {i \in 1..Len(shdrs) : name(i) = None \/ IsBssName(name(i)[1])}
    IN  IF stops = {} THEN Err(Error("BssNotFound"))
        ELSE IF name(Least(stops)) = None THEN Err(Error("FileTooSmall"))
        ELSE Ok([psp_header EXCEPT !.bss_size = shdrs[Least(stops)].sh_size])

\* read_segments_bss_info; returns the header as the call leaves it.
read_segments_bss_info(exec, elf_start, psp_header) ==
    AndThen(ok_or(GetFrom(exec, elf_start), Error("FileTooSmall")), LAMBDA elf_slice :
    AndThen(from_bytes("Elf32Ehdr", elf_slice), LAMBDA elf_header :
    AndThen(ok_or(GetFrom(exec, elf_start + AsUsize(elf_header.e_phoff)),
                  Error("FileTooSmall")), LAMBDA phdr_slice :
    AndThen(from_bytes_with_elems("Elf32Phdr", phdr_slice, psp_header.num_segments),
            LAMBDA phdrs :
    AndThen(read_shdrs(exec, elf_start, elf_header), LAMBDA sh :
        WithBssSize(exec, WithSegments(psp_header, phdrs), sh.shdrs, sh.strtab_offset))))))

(***************************************************************************)
(* The output buffer and the compressor                                    *)
(***************************************************************************)

\* Write for Cursor<Vec<u8>>: data replaces the bytes from pos on, the vector
\* grows to hold it, and a gap before pos is filled with zeros.
CursorWrite(vec, pos, data) ==
    LET padded == IF pos > Len(vec) THEN vec \o Zeros(pos - Len(vec)) ELSE vec
    IN  SubSeq(padded, 1, pos) \o data \o SubSeq(padded, pos + Len(data) + 1, Len(padded))

\* `buf[start..start + data.len()].copy_from_slice(data)`
CopyFromSlice(buf, start, data) ==
    SubSeq(buf, 1, start) \o data \o SubSeq(buf, start + Len(data) + 1, Len(buf))

\* Two run-length codes joined: the last run of a and the first run of b
\* become one run when they repeat the same byte.
MergeRuns(a, b) ==
    IF a[Len(a)] = b[3]
    THEN SubSeq(a, 1, Len(a) - 3)
         \o LE16(ReadU16(a, Len(a) - 3) + ReadU16(b, 0))
         \o SubSeq(b, 3, Len(b))
    ELSE a \o b

\* The run-length code of the bytes lo..hi of s (lo <= hi): one
\* (count as u16, byte) triple for each run of equal bytes.
RECURSIVE RunLengthCode(_, _, _)
RunLengthCode(s, lo, hi) ==
    IF lo = hi THEN <<1, 0, s[lo]>>
    ELSE MergeRuns(RunLengthCode(s, lo, (lo + hi) \div 2),
                   RunLengthCode(s, (lo + hi) \div 2 + 1, hi))

\* The compressed body.  DEFLATE belongs to the flate2 crate; a run-length
\* code stands for it: lossless, and shorter than the data where bytes
\* repeat.
Deflate(s) == IF s = <<>> THEN <<>> ELSE RunLengthCode(s, 1, Len(s))

\* The sum of the bytes lo..hi of s, standing for the CRC-32 of the gzip
\* trailer.
RECURSIVE ByteSum(_, _, _)
ByteSum(s, lo, hi) ==
    IF lo > hi THEN 0
    ELSE IF lo = hi THEN s[lo]
    ELSE ByteSum(s, lo, (lo + hi) \div 2) + ByteSum(s, (lo + hi) \div 2 + 1, hi)

\* GzBuilder::new().operating_system(0x0B).write(w, Compression::best()):
\* the member's header (ID1 ID2 CM FLG MTIME XFL OS), body, checksum, ISIZE.
Gzip(data) ==
    <<31, 139, 8, 0, 0, 0, 0, 0, 2, 11>> \o Deflate(data)
    \o LE32(AsU32(ByteSum(data, 1, Len(data)))) \o LE32(AsU32(Len(data)))


(***************************************************************************)
(* The inputs: files built from a few parameters                           *)
(***************************************************************************)

\* Largest segment count (e_phnum) of an input.
MaxPhnum == 5
\* Most bytes of assets after the embedded image of a container.
MaxTrail == 2
\* Most bytes of assets between the container header and the image.
MaxPre == 1
\* Number of seeds the key filler is drawn from.
NumSeeds == 2
\* Bytes of assets before the image in a container that has a parameter file
\* or an icon: more than lie between the record and the image's end.
AssetsLen == 112

NameModuleInfo ==
    <<46, 114, 111, 100, 97, 116, 97, 46, 115, 99, 101, 77, 111, 100, 117, 108, 101,
      73, 110, 102, 111>>                                \* .rodata.sceModuleInfo
NameBss == <<46, 98, 115, 115>>                          \* .bss
NameBss2 == <<46, 98, 115, 115, 50>>                     \* .bss2
NameShstrtab == <<46, 115, 104, 115, 116, 114, 116, 97, 98>> \* .shstrtab
NameData == <<46, 100, 97, 116, 97>>                     \* .data
NameAb == <<97, 98>>                                     \* ab

\* The section names of an input, in section-header order; section 0 is the
\* string table.
NamesFull == <<NameShstrtab, NameModuleInfo, NameBss>>
NamesNoInfo == <<NameShstrtab, NameBss>>
NamesNoBss == <<NameShstrtab, NameModuleInfo, NameData>>
NamesBss2 == <<NameShstrtab, NameModuleInfo, NameBss2>>
NamesShortLast == <<NameShstrtab, NameModuleInfo, NameAb>>
NamesNeither == <<NameShstrtab, NameData, NameAb>>
NamesNone == <<>>

\* The string table: each name followed by a NUL; without `nul` the last
\* name's terminator is missing.
RECURSIVE StrTab(_, _)
StrTab(names, nul) ==
    IF names = <<>> THEN <<>>
    ELSE IF Len(names) = 1 THEN names[1] \o (IF nul THEN <<0>> ELSE <<>>)
    ELSE names[1] \o <<0>> \o StrTab(Tail(names), nul)

\* Offset of the i-th name in the string table.
RECURSIVE NameOffset(_, _)
NameOffset(names, i) ==
    IF i = 1 THEN 0 ELSE Len(names[i - 1]) + 1 + NameOffset(names, i - 1)

\* Offsets of the parts of the image of input p, from the image's start.
PhOff(p) == size_of("Elf32Ehdr")
ShOff(p) == PhOff(p) + p.phnum * size_of("Elf32Phdr")
InfoOff(p) == ShOff(p) + Len(p.names) * size_of("Elf32Shdr")
StrOff(p) == InfoOff(p) + size_of("SceModuleInfo")
ImageLen(p) == StrOff(p) + Len(StrTab(p.names, p.nul))

WithTopBit(u, top) == IF top THEN <<u[1] + 32768, u[2]>> ELSE u

\* Whether segment i of input p has the module-info shape (type 1, virtual
\* address # physical address), and the physical address it then holds.
SegIsInfo(p, i) ==
    CASE p.segs = "none" -> FALSE
      [] p.segs = "first" -> i = 1
      [] p.segs = "second" -> i = 2
      [] p.segs = "both" -> i \in {1, 2}
      [] p.segs = "nonload" -> i = 2

SegType(p, i) == IF p.segs = "nonload" /\ i = 1 THEN H32(0, 6) ELSE H32(0, 1)
SegVaddr(p, i) == H32(\H0880, 4096 * i)
SegPaddr(p, i) ==
    IF SegIsInfo(p, i)
    THEN IF p.segs = "both" /\ i = 2
         THEN WithTopBit(H32(0, 0), ~p.kernel)
         ELSE WithTopBit(AsU32(InfoOff(p)), p.kernel)
    ELSE IF p.segs = "nonload" /\ i = 1 THEN WithTopBit(H32(0, 0), ~p.kernel)
    ELSE SegVaddr(p, i)
SegAlign(p, i) == H32(i, 16 * i)
SegMemsz(p, i) == H32(0, 4096 - 256 * i)

MkPhdr(p, i) ==
    LE32(SegType(p, i)) \o LE32(AsU32(0)) \o LE32(SegVaddr(p, i)) \o LE32(SegPaddr(p, i))
    \o LE32(AsU32(ImageLen(p))) \o LE32(SegMemsz(p, i)) \o LE32(H32(0, 5))
    \o LE32(SegAlign(p, i))

RECURSIVE MkPhdrs(_, _)
MkPhdrs(p, i) == IF i > p.phnum THEN <<>> ELSE MkPhdr(p, i) \o MkPhdrs(p, i + 1)

SecOffset(p, i) ==
    IF i = 1 THEN AsU32(StrOff(p))
    ELSE IF p.names[i] = NameModuleInfo
    THEN CASE p.sec_off = "rec" -> AsU32(InfoOff(p))
           [] p.sec_off = "zero" -> H32(0, 0)
           [] p.sec_off = "high" -> WithTopBit(AsU32(InfoOff(p)), TRUE)
    ELSE H32(0, 0)
SecSize(p, i) == H32(0, 512 + i)

MkShdr(p, i) ==
    LE32(AsU32(NameOffset(p.names, i))) \o LE32(H32(0, 1)) \o Zeros(8)
    \o LE32(SecOffset(p, i)) \o LE32(SecSize(p, i)) \o Zeros(16)

RECURSIVE MkShdrs(_, _)
MkShdrs(p, i) == IF i > Len(p.names) THEN <<>> ELSE MkShdr(p, i) \o MkShdrs(p, i + 1)

MkEhdr(p) ==
    LE32(ELF_MAGIC) \o <<1, 1, 1>> \o Zeros(9) \o LE16(p.e_type) \o LE16(8)
    \o LE32(H32(0, 1)) \o LE32(H32(\H0880, \H0040)) \o LE32(AsU32(PhOff(p)))
    \o LE32(AsU32(ShOff(p))) \o LE32(H32(0, 0)) \o LE16(size_of("Elf32Ehdr"))
    \o LE16(size_of("Elf32Phdr")) \o LE16(p.phnum) \o LE16(size_of("Elf32Shdr"))
    \o LE16(Len(p.names)) \o LE16(p.shstrndx)

MkModuleInfo(p) ==
    LE16(p.attr) \o <<1, 2>> \o <<109, 111, 100>> \o Zeros(24) \o <<0>>
    \o [i \in 1..(5 * PointerWidth) |-> 200 + i]

MkImage(p) ==
    MkEhdr(p) \o MkPhdrs(p, 1) \o MkShdrs(p, 1) \o MkModuleInfo(p)
    \o StrTab(p.names, p.nul)

\* The container around the image: header, assets, image, trailing assets.
PreambleLen(p) == size_of("PbpHeader") + p.pre
PsarOffset(p) ==
    CASE p.psar = "end" -> PreambleLen(p) + ImageLen(p)
      [] p.psar = "short" -> PreambleLen(p) + 8
      [] p.psar = "before" -> PreambleLen(p) - 4

MkPbpHeader(p) ==
    LE32(PBP_HEADER_MAGIC) \o LE32(H32(1, 0))
    \o LE32(H32(0, 40)) \o LE32(H32(0, 41)) \o LE32(H32(0, 42)) \o LE32(H32(0, 43))
    \o LE32(H32(0, 44)) \o LE32(H32(0, 45))
    \o LE32(AsU32(PreambleLen(p))) \o LE32(AsU32(PsarOffset(p)))

MkInput(p) ==
    CASE p.form = "elf" -> MkImage(p)
      [] p.form = "pbp" ->
            MkPbpHeader(p) \o [i \in 1..p.pre |-> 160 + i] \o MkImage(p)
            \o [i \in 1..p.trail |-> 224 + i]
      [] p.form = "psp" -> LE32(PSP_HEADER_MAGIC) \o SubSeq(MkImage(p), 5, ImageLen(p))
      [] p.form = "tiny" -> <<127, 69>>
      [] p.form = "magic" -> LE32(PSP_HEADER_MAGIC)

Base ==
    [form |-> "elf", pre |-> 0, psar |-> "end", trail |-> 0, e_type |-> ELF_TYPE_PRX,
     phnum |-> 2, segs |-> "first", kernel |-> FALSE, names |-> NamesFull,
     shstrndx |-> 0, attr |-> 0, sec_off |-> "rec", nul |-> TRUE]

Forms == {"elf", "pbp"}
Attrs == {0, KernelMode, KernelMode + BootMode, VshAPI, AppAPI, UsbWlanAPI}

\* Classification and privilege: every segment shape, with and without the
\* section, against every attribute.
InputsPrivilege ==
    {[Base EXCEPT !.form = f, !.segs = s, !.kernel = k, !.attr = a, !.names = n] :
        f \in Forms, s \in {"none", "first", "second", "both", "nonload"},
        k \in BOOLEAN, a \in Attrs, n \in {NamesFull, NamesNoInfo}}

\* Where the section says the record is.
InputsSection ==
    {[Base EXCEPT !.form = f, !.segs = s, !.sec_off = o] :
        f \in Forms, s \in {"none", "first"}, o \in {"zero", "high"}}

\* Segment counts.
InputsSegments ==
    {[Base EXCEPT !.form = f, !.phnum = n, !.segs = s, !.kernel = k,
                  !.attr = IF k THEN KernelMode ELSE 0] :
        f \in Forms, n \in 0..MaxPhnum, s \in {"none", "first", "second"},
        k \in BOOLEAN}

\* Section names and the string table.
InputsNames ==
    {[Base EXCEPT !.form = f, !.names = n, !.segs = s, !.nul = z, !.shstrndx = x] :
        f \in Forms,
        n \in {NamesNoBss, NamesBss2, NamesShortLast, NamesNeither, NamesNone},
        s \in {"none", "first"}, z \in BOOLEAN, x \in {0, 3}}

\* The container's geometry.
InputsContainer ==
    {[Base EXCEPT !.form = "pbp", !.pre = e, !.psar = o, !.trail = t, !.attr = a] :
        e \in 0..MaxPre, o \in {"end", "short", "before"}, t \in 0..MaxTrail,
        a \in {0, VshAPI}}

\* A container with assets before its image.
InputsAssets ==
    {[Base EXCEPT !.form = "pbp", !.pre = AssetsLen, !.attr = a] : a \in {0, VshAPI}}

\* Other files: packed already, too short, not a PRX.
InputsOther ==
    {[Base EXCEPT !.form = f, !.e_type = t] :
        f \in {"elf", "pbp", "psp", "tiny", "magic"}, t \in {ELF_TYPE_PRX, 2}}

Inputs ==
    InputsPrivilege \cup InputsSection \cup InputsSegments \cup InputsNames
    \cup InputsContainer \cup InputsAssets \cup InputsOther


(***************************************************************************)
(* The pipeline: UnkPspExecutable::compress_impl, one action per stage     *)
(***************************************************************************)

VARIABLES
    input,            \* the parameters the file was built from (not read by the code)
    exec,             \* self.0, the input buffer; the write-back changes it
    psp_tag, oe_tag,  \* the override tags, Option<u32>
    pc,               \* the stage compress_impl is at
    exec_kind, exec_size, exec_offset,
    elf_header, mod_info_phdr, mod_info_shdr, is_kernel_module,
    mod_info_off, mod_info_start, mod_info,
    psp_header,
    compressed,       \* compressed_cursor's vector
    position,         \* compressed_cursor's position
    exec_comp_size,
    gzip_input,       \* the bytes written to the compressor
    result,           \* what compress_impl returned
    matches,          \* main.rs: the parsed command line
    writes,           \* main.rs: the calls of fs::write made so far, in order
    res,              \* main.rs: what exec() returned
    first             \* what an earlier call on the same bytes and tags returned

vars ==
    <<input, exec, psp_tag, oe_tag, pc, exec_kind, exec_size, exec_offset, elf_header,
      mod_info_phdr, mod_info_shdr, is_kernel_module, mod_info_off, mod_info_start,
      mod_info, psp_header, compressed, position, exec_comp_size, gzip_input, result,
      matches, writes, res, first>>

\* What lies outside a call of compress_impl: main.rs's state and the outcome
\* of an earlier call; no stage reads or writes it.
Caller == <<matches, writes, res, first>>

\* Address of a heap buffer (the boxed input, the output vector): the global
\* allocator aligns such blocks for every record read here.
BufferAddr == 4096

\* The override tags a caller may pass to compress_with_tags.
TagPairs == {<<H32(\H1234, \H5678), H32(\H9ABC, \HDEF0)>>}

\* The key filler the generator seeded with `seed` writes at byte i of a region.
KeyByte(seed, region, i) == (seed * 89 + region * 31 + i * 7) % 256

Running == [tag |-> "Running"]
Returned(r) ==
    IF IsPanic(r) THEN [tag |-> "Panic"] ELSE [tag |-> "Err", err |-> ErrOf(r)]

\* The command line of a call that names the input alone.
NoCommandLine == [output |-> None, dry_run |-> FALSE, tags |-> None]

Init ==
    /\ input \in Inputs
    /\ exec = MkInput(input)
    /\ psp_tag = None
    /\ oe_tag = None
    /\ pc = "start"
    /\ exec_kind = "UserPrx"
    /\ exec_size = 0
    /\ exec_offset = 0
    /\ elf_header = ReadElf32Ehdr(Zeros(size_of("Elf32Ehdr")))
    /\ mod_info_phdr = None
    /\ mod_info_shdr = None
    /\ is_kernel_module = FALSE
    /\ mod_info_off = ZeroU32
    /\ mod_info_start = 0
    /\ mod_info = ReadSceModuleInfo(Zeros(size_of("SceModuleInfo")))
    /\ psp_header = PspHeaderDefault
    /\ compressed = <<>>
    /\ position = 0
    /\ exec_comp_size = 0
    /\ gzip_input = <<>>
    /\ result = Running
    /\ matches = NoCommandLine
    /\ writes = <<>>
    /\ res = Running
    /\ first = None

\* The variables a stage leaves alone are listed by what it changes.
Locals ==
    <<exec_kind, exec_size, exec_offset, elf_header, mod_info_phdr, mod_info_shdr,
      is_kernel_module, mod_info_off, mod_info_start, mod_info>>
Output == <<compressed, position, exec_comp_size, gzip_input>>

\* compress(self): compress_impl(None, None)
compress ==
    /\ pc = "start"
    /\ psp_tag' = None
    /\ oe_tag' = None
    /\ pc' = "read_magic"
    /\ UNCHANGED <<Caller, input, exec, Locals, psp_header, Output, result>>

\* compress_with_tags(self, psp_tag, oe_tag)
compress_with_tags ==
    /\ pc = "start"
    /\ \E t \in TagPairs : psp_tag' = Some(t[1]) /\ oe_tag' = Some(t[2])
    /\ pc' = "read_magic"
    /\ UNCHANGED <<Caller, input, exec, Locals, psp_header, Output, result>>

\* Lines 57-69 with the signature looked for only in a file long enough to
\* hold a packed header.
ReadMagic_WholeHeader ==
    /\ pc = "read_magic"
    /\ exec_size' = Len(exec)
    /\ exec_kind' = "UserPrx"
    /\ exec_offset' = 0
    /\ IF Len(exec) < 4
       THEN result' = [tag |-> "Err", err |-> Error("Io")] /\ pc' = "done"
       ELSE IF ReadU32(exec, 0) = PSP_HEADER_MAGIC /\ Len(exec) >= size_of("PspHeader")
       THEN result' = [tag |-> "Err", err |-> Error("AlreadyPacked")] /\ pc' = "done"
       ELSE result' = result /\ pc' = "container"
    /\ UNCHANGED <<Caller, input, exec, psp_tag, oe_tag, elf_header, mod_info_phdr,
                   mod_info_shdr, is_kernel_module, mod_info_off, mod_info_start,
                   mod_info, psp_header, Output>>

\* Lines 57-69: the first four bytes; a packed file is refused.
ReadMagic ==
    /\ pc = "read_magic"
    /\ exec_size' = Len(exec)
    /\ exec_kind' = "UserPrx"
    /\ exec_offset' = 0
    /\ IF Len(exec) < 4
       THEN result' = [tag |-> "Err", err |-> Error("Io")] /\ pc' = "done"
       ELSE IF ReadU32(exec, 0) = PSP_HEADER_MAGIC
       THEN result' = [tag |-> "Err", err |-> Error("AlreadyPacked")] /\ pc' = "done"
       ELSE result' = result /\ pc' = "container"
    /\ UNCHANGED <<Caller, input, exec, psp_tag, oe_tag, elf_header, mod_info_phdr,
                   mod_info_shdr, is_kernel_module, mod_info_off, mod_info_start,
                   mod_info, psp_header, Output>>

\* Lines 71-76: a container gives the image's offset and size.  The u32
\* subtraction panics when it underflows under overflow checks (the dev
\* profile) and wraps without them (the release profile).
ParseContainer ==
    /\ pc = "container"
    /\ \E overflow_checks \in BOOLEAN :
        LET pbp == ref_from_bytes("PbpHeader", exec, BufferAddr)
        IN  IF ReadU32(exec, 0) # PBP_HEADER_MAGIC
            THEN /\ pc' = "elf_header"
                 /\ UNCHANGED <<exec_kind, exec_size, exec_offset, result>>
            ELSE IF ~pbp.ok
            THEN /\ result' = Returned(pbp)
                 /\ pc' = "done"
                 /\ UNCHANGED <<exec_kind, exec_size, exec_offset>>
            ELSE IF LessU32(Val(pbp).psar_offset, Val(pbp).prx_offset) /\ overflow_checks
            THEN /\ result' = Returned(Panic)
                 /\ pc' = "done"
                 /\ exec_kind' = "Pbp"
                 /\ UNCHANGED <<exec_size, exec_offset>>
            ELSE /\ exec_kind' = "Pbp"
                 /\ exec_size' =
                        AsUsize(WrappingSubU32(Val(pbp).psar_offset, Val(pbp).prx_offset))
                 /\ exec_offset' = AsUsize(Val(pbp).prx_offset)
                 /\ pc' = "elf_header"
                 /\ result' = result
    /\ UNCHANGED <<Caller, input, exec, psp_tag, oe_tag, elf_header, mod_info_phdr,
                   mod_info_shdr, is_kernel_module, mod_info_off, mod_info_start,
                   mod_info, psp_header, Output>>

\* elf_range, line 78
elf_range_start == exec_offset
elf_range_end == exec_size

\* Lines 78-94 with the test of lines 84-88, which the source has commented
\* out, in force: a container whose image is typed as a PRX is refused.
ReadElfHeader_ContainerTest ==
    /\ pc = "elf_header"
    /\ LET elf_slice == GetRange(exec, elf_range_start, elf_range_end)
           eh == from_bytes("Elf32Ehdr", elf_slice[1])
       IN  IF elf_slice = None
           THEN result' = [tag |-> "Err", err |-> Error("FileTooSmall")]
                /\ pc' = "done" /\ elf_header' = elf_header
           ELSE IF ~eh.ok
           THEN result' = Returned(eh) /\ pc' = "done" /\ elf_header' = elf_header
           ELSE IF is_pbp(exec_kind) /\ ehdr_is_prx(Val(eh))
           THEN result' = [tag |-> "Err", err |-> Error("NotPbp")]
                /\ pc' = "done" /\ elf_header' = Val(eh)
           ELSE IF is_prx(exec_kind) /\ ~ehdr_is_prx(Val(eh))
           THEN result' = [tag |-> "Err", err |-> Error("NotPrx")]
                /\ pc' = "done" /\ elf_header' = Val(eh)
           ELSE result' = result /\ pc' = "locate" /\ elf_header' = Val(eh)
    /\ UNCHANGED <<Caller, input, exec, psp_tag, oe_tag, exec_kind, exec_size, exec_offset,
                   mod_info_phdr, mod_info_shdr, is_kernel_module, mod_info_off,
                   mod_info_start, mod_info, psp_header, Output>>

\* Lines 78-94: the image's file header; a standalone file must be a PRX.
ReadElfHeader ==
    /\ pc = "elf_header"
    /\ LET elf_slice == GetRange(exec, elf_range_start, elf_range_end)
           eh == from_bytes("Elf32Ehdr", elf_slice[1])
       IN  IF elf_slice = None
           THEN result' = [tag |-> "Err", err |-> Error("FileTooSmall")]
                /\ pc' = "done" /\ elf_header' = elf_header
           ELSE IF ~eh.ok
           THEN result' = Returned(eh) /\ pc' = "done" /\ elf_header' = elf_header
           ELSE IF is_prx(exec_kind) /\ ~ehdr_is_prx(Val(eh))
           THEN result' = [tag |-> "Err", err |-> Error("NotPrx")]
                /\ pc' = "done" /\ elf_header' = Val(eh)
           ELSE result' = result /\ pc' = "locate" /\ elf_header' = Val(eh)
    /\ UNCHANGED <<Caller, input, exec, psp_tag, oe_tag, exec_kind, exec_size, exec_offset,
                   mod_info_phdr, mod_info_shdr, is_kernel_module, mod_info_off,
                   mod_info_start, mod_info, psp_header, Output>>

\* Lines 96-97: both locators run, the segment scan first.
LocateModuleInfo ==
    /\ pc = "locate"
    /\ LET phdr == find_module_info_phdr(exec, exec_offset)
           shdr == find_segment(exec, exec_offset, NameModuleInfo)
       IN  IF ~phdr.ok
           THEN result' = Returned(phdr) /\ pc' = "done"
                /\ UNCHANGED <<mod_info_phdr, mod_info_shdr>>
           ELSE IF ~shdr.ok
           THEN result' = Returned(shdr) /\ pc' = "done"
                /\ mod_info_phdr' = Val(phdr) /\ mod_info_shdr' = mod_info_shdr
           ELSE result' = result /\ pc' = "classify"
                /\ mod_info_phdr' = Val(phdr) /\ mod_info_shdr' = Val(shdr)
    /\ UNCHANGED <<Caller, input, exec, psp_tag, oe_tag, exec_kind, exec_size, exec_offset,
                   elf_header, is_kernel_module, mod_info_off, mod_info_start,
                   mod_info, psp_header, Output>>

\* Lines 99-106 without the test for a container.
Classify_NoContainerTest ==
    /\ pc = "classify"
    /\ LET kernel == mod_info_phdr # None /\ TopBitSet(mod_info_phdr[1].p_paddr)
       IN  /\ is_kernel_module' = kernel
           /\ result' = result
           /\ pc' = "read_mod_info"
           /\ exec_kind' = IF kernel THEN "KernelPrx" ELSE exec_kind
    /\ UNCHANGED <<Caller, input, exec, psp_tag, oe_tag, exec_size, exec_offset, elf_header,
                   mod_info_phdr, mod_info_shdr, mod_info_off, mod_info_start,
                   mod_info, psp_header, Output>>

\* Lines 96-106 with the classification recomputed from the privilege bit
\* alone: a container that is no kernel module is classified as a user PRX.
Classify_Recomputed ==
    /\ pc = "classify"
    /\ LET kernel == mod_info_phdr # None /\ TopBitSet(mod_info_phdr[1].p_paddr)
       IN  /\ is_kernel_module' = kernel
           /\ IF kernel /\ is_pbp(exec_kind)
              THEN result' = [tag |-> "Err", err |-> Error("KernelPbp")]
                   /\ pc' = "done" /\ exec_kind' = exec_kind
              ELSE /\ result' = result
                   /\ pc' = "read_mod_info"
                   /\ exec_kind' = IF kernel THEN "KernelPrx" ELSE "UserPrx"
    /\ UNCHANGED <<Caller, input, exec, psp_tag, oe_tag, exec_size, exec_offset, elf_header,
                   mod_info_phdr, mod_info_shdr, mod_info_off, mod_info_start,
                   mod_info, psp_header, Output>>

\* Lines 99-106: the privilege the segment's address gives; a kernel
\* container is refused.
Classify ==
    /\ pc = "classify"
    /\ LET kernel == mod_info_phdr # None /\ TopBitSet(mod_info_phdr[1].p_paddr)
       IN  /\ is_kernel_module' = kernel
           /\ IF kernel /\ is_pbp(exec_kind)
              THEN result' = [tag |-> "Err", err |-> Error("KernelPbp")]
                   /\ pc' = "done" /\ exec_kind' = exec_kind
              ELSE /\ result' = result
                   /\ pc' = "read_mod_info"
                   /\ exec_kind' = IF kernel THEN "KernelPrx" ELSE exec_kind
    /\ UNCHANGED <<Caller, input, exec, psp_tag, oe_tag, exec_size, exec_offset, elf_header,
                   mod_info_phdr, mod_info_shdr, mod_info_off, mod_info_start,
                   mod_info, psp_header, Output>>

\* Lines 108-116: the record's offset, from the segment before the section,
\* and an owned copy of the record.
ReadModuleInfo ==
    /\ pc = "read_mod_info"
    /\ IF mod_info_phdr = None /\ mod_info_shdr = None
       THEN /\ result' = [tag |-> "Err", err |-> Error("NoModuleInfo")]
            /\ pc' = "done"
            /\ UNCHANGED <<mod_info_off, mod_info_start, mod_info>>
       ELSE LET off == IF mod_info_phdr # None THEN mod_info_phdr[1].p_paddr
                       ELSE mod_info_shdr[1].sh_offset
                start == exec_offset + AsUsize(ClearTopBit(off))
                mod_info_slice == GetFrom(exec, start)
                mi == from_bytes("SceModuleInfo", mod_info_slice[1])
            IN  /\ mod_info_off' = off
                /\ mod_info_start' = start
                /\ IF mod_info_slice = None
                   THEN result' = [tag |-> "Err", err |-> Error("FileTooSmall")]
                        /\ pc' = "done" /\ mod_info' = mod_info
                   ELSE IF ~mi.ok
                   THEN result' = Returned(mi) /\ pc' = "done" /\ mod_info' = mod_info
                   ELSE result' = result /\ pc' = "cross_check" /\ mod_info' = Val(mi)
    /\ UNCHANGED <<Caller, input, exec, psp_tag, oe_tag, exec_kind, exec_size, exec_offset,
                   elf_header, mod_info_phdr, mod_info_shdr, is_kernel_module,
                   psp_header, Output>>

\* Lines 119-123 with only the second disjunct of the test.
CrossCheck_OneDirection ==
    /\ pc = "cross_check"
    /\ IF ~is_kernel_module /\ contains(mod_info.mod_attr, KernelMode)
       THEN result' = [tag |-> "Err", err |-> Error("MixedPrivileges")] /\ pc' = "done"
       ELSE result' = result /\ pc' = "build_header"
    /\ UNCHANGED <<Caller, input, exec, psp_tag, oe_tag, Locals, psp_header, Output>>

\* Lines 119-123: the record's KernelMode bit must agree with the segment.
CrossCheck ==
    /\ pc = "cross_check"
    /\ IF \/ (is_kernel_module /\ ~contains(mod_info.mod_attr, KernelMode))
          \/ (~is_kernel_module /\ contains(mod_info.mod_attr, KernelMode))
       THEN result' = [tag |-> "Err", err |-> Error("MixedPrivileges")] /\ pc' = "done"
       ELSE result' = result /\ pc' = "build_header"
    /\ UNCHANGED <<Caller, input, exec, psp_tag, oe_tag, Locals, psp_header, Output>>


\* Lines 125-141: the header from its default, with the fields the record
\* and the file header give.
BuildHeader ==
    /\ pc = "build_header"
    /\ psp_header' =
           [PspHeaderDefault EXCEPT
               !.attribute = mod_info.mod_attr,
               !.module_info_offset = mod_info_off,
               !.comp_attribute = 1,
               !.module_version_low = mod_info.mod_version_low,
               !.module_version_high = mod_info.mod_version_high,
               !.module_name = [i \in 1..28 |->
                                   IF i <= Len(mod_info.mod_name)
                                   THEN mod_info.mod_name[i] ELSE @[i]],
               !.elf_size = AsU32(exec_size),
               !.entry = elf_header.e_entry]
    /\ pc' = "count_segments"
    /\ UNCHANGED <<Caller, input, exec, psp_tag, oe_tag, Locals, Output, result>>

\* Lines 143-147 with only the upper limit tested.
CountSegments_AllowsZero ==
    /\ pc = "count_segments"
    /\ IF elf_header.e_phnum > 4
       THEN /\ result' = [tag |-> "Err", err |-> Error("NoSegments")]
            /\ pc' = "done"
            /\ psp_header' = psp_header
       ELSE /\ result' = result
            /\ pc' = "segments_bss"
            /\ psp_header' = [psp_header EXCEPT !.num_segments = elf_header.e_phnum % 256]
    /\ UNCHANGED <<Caller, input, exec, psp_tag, oe_tag, Locals, Output>>

\* Lines 143-147: one to four segments.
CountSegments ==
    /\ pc = "count_segments"
    /\ IF elf_header.e_phnum = 0 \/ elf_header.e_phnum > 4
       THEN /\ result' = [tag |-> "Err", err |-> Error("NoSegments")]
            /\ pc' = "done"
            /\ psp_header' = psp_header
       ELSE /\ result' = result
            /\ pc' = "segments_bss"
            /\ psp_header' = [psp_header EXCEPT !.num_segments = elf_header.e_phnum % 256]
    /\ UNCHANGED <<Caller, input, exec, psp_tag, oe_tag, Locals, Output>>

\* Line 149
ReadSegmentsBss ==
    /\ pc = "segments_bss"
    /\ LET r == read_segments_bss_info(exec, exec_offset, psp_header)
       IN  IF ~r.ok
           THEN result' = Returned(r) /\ pc' = "done" /\ psp_header' = psp_header
           ELSE result' = result /\ pc' = "decrypt_mode" /\ psp_header' = Val(r)
    /\ UNCHANGED <<Caller, input, exec, psp_tag, oe_tag, Locals, Output>>

\* Line 151
SetDecryptMode ==
    /\ pc = "decrypt_mode"
    /\ psp_header' = set_decript_mode(psp_header, is_pbp(exec_kind))
    /\ pc' = "write_back"
    /\ UNCHANGED <<Caller, input, exec, psp_tag, oe_tag, Locals, Output, result>>

\* Lines 153-157: the record, with the header's attribute, back into the
\* input buffer.
WriteBackModInfo ==
    /\ pc = "write_back"
    /\ LET updated == [mod_info EXCEPT !.mod_attr = psp_header.attribute]
           range_end == mod_info_start + size_of("SceModuleInfo")
       IN  /\ mod_info' = updated
           /\ IF GetRange(exec, mod_info_start, range_end) = None
              THEN /\ result' = [tag |-> "Err", err |-> Error("FileTooSmall")]
                   /\ pc' = "done"
                   /\ exec' = exec
              ELSE /\ result' = result
                   /\ pc' = "tags"
                   /\ exec' = CopyFromSlice(exec, mod_info_start, SceModuleInfoBytes(updated))
    /\ UNCHANGED <<Caller, input, psp_tag, oe_tag, exec_kind, exec_size, exec_offset,
                   elf_header, mod_info_phdr, mod_info_shdr, is_kernel_module,
                   mod_info_off, mod_info_start, psp_header, Output>>

\* Lines 159-160: the caller's tags, or the kind's.
SetTags ==
    /\ pc = "tags"
    /\ psp_header' =
           [psp_header EXCEPT
               !.tag = IF psp_tag # None THEN psp_tag[1]
                       ELSE default_psp_tag_handler(exec_kind),
               !.oe_tag = IF oe_tag # None THEN oe_tag[1]
                          ELSE default_oe_tag_handler(exec_kind)]
    /\ pc' = "keys"
    /\ UNCHANGED <<Caller, input, exec, psp_tag, oe_tag, Locals, Output, result>>

\* Lines 162-166 with the generator also filling scheck, the region between
\* tag and key_data2.
FillKeys_FillsScheck ==
    /\ pc = "keys"
    /\ \E seed \in 1..NumSeeds :
          psp_header' =
              [psp_header EXCEPT
                  !.key_data0 = [i \in 1..48 |-> KeyByte(seed, 0, i)],
                  !.key_data1 = [i \in 1..16 |-> KeyByte(seed, 1, i)],
                  !.scheck = [i \in 1..88 |-> KeyByte(seed, 2, i)],
                  !.key_data3 = [i \in 1..28 |-> KeyByte(seed, 3, i)]]
    /\ pc' = "compress"
    /\ UNCHANGED <<Caller, input, exec, psp_tag, oe_tag, Locals, Output, result>>

\* Lines 162-166: the three key regions from a generator seeded per process.
FillKeys ==
    /\ pc = "keys"
    /\ \E seed \in 1..NumSeeds :
          psp_header' =
              [psp_header EXCEPT
                  !.key_data0 = [i \in 1..48 |-> KeyByte(seed, 0, i)],
                  !.key_data1 = [i \in 1..16 |-> KeyByte(seed, 1, i)],
                  !.key_data3 = [i \in 1..28 |-> KeyByte(seed, 3, i)]]
    /\ pc' = "compress"
    /\ UNCHANGED <<Caller, input, exec, psp_tag, oe_tag, Locals, Output, result>>

\* Lines 168-179: the cursor skips the header's space, then the compressor
\* writes the stream for the bytes of elf_range.
Compress ==
    /\ pc = "compress"
    /\ LET elf_slice == GetRange(exec, elf_range_start, elf_range_end)
       IN  IF elf_slice = None
           THEN /\ result' = [tag |-> "Err", err |-> Error("FileTooSmall")]
                /\ pc' = "done"
                /\ UNCHANGED <<compressed, position, gzip_input>>
           ELSE /\ gzip_input' = elf_slice[1]
                /\ compressed' = CursorWrite(<<>>, size_of("PspHeader"), Gzip(elf_slice[1]))
                /\ position' = size_of("PspHeader") + Len(Gzip(elf_slice[1]))
                /\ pc' = "finalize"
                /\ result' = result
    /\ UNCHANGED <<Caller, input, exec, psp_tag, oe_tag, Locals, psp_header, exec_comp_size>>

\* Lines 181-193 with the header written before its sizes are set.
FinalizeHeader_SerializesFirst ==
    /\ pc = "finalize"
    /\ LET new_size == Len(compressed)
           final == [psp_header EXCEPT
                        !.comp_size = AsU32(new_size - size_of("PspHeader")),
                        !.psp_size = AsU32(new_size)]
       IN  /\ psp_header' = final
           /\ exec_comp_size' = new_size - size_of("PspHeader")
           /\ compressed' = CursorWrite(compressed, 0, PspHeaderBytes(psp_header))
           /\ position' = position
    /\ pc' = "assemble"
    /\ UNCHANGED <<Caller, input, exec, psp_tag, oe_tag, Locals, gzip_input, result>>

\* Lines 181-193: the two sizes, then the header into the space kept for it.
FinalizeHeader ==
    /\ pc = "finalize"
    /\ LET new_size == Len(compressed)
           final == [psp_header EXCEPT
                        !.comp_size = AsU32(new_size - size_of("PspHeader")),
                        !.psp_size = AsU32(new_size)]
       IN  /\ psp_header' = final
           /\ exec_comp_size' = new_size - size_of("PspHeader")
           /\ compressed' = CursorWrite(compressed, 0, PspHeaderBytes(final))
           /\ position' = position
    /\ pc' = "assemble"
    /\ UNCHANGED <<Caller, input, exec, psp_tag, oe_tag, Locals, gzip_input, result>>

\* The vector with the u32 at byte offset off replaced.
PatchU32(vec, off, u) == CopyFromSlice(vec, off, LE32(u))

\* Lines 196-210: for a container, the trailing assets are written at the
\* end, the preamble at position 0, and psar_offset is set in place.
AssemblePbp ==
    /\ pc = "assemble"
    /\ IF ~is_pbp(exec_kind)
       THEN /\ pc' = "return"
            /\ UNCHANGED <<compressed, position, result>>
       ELSE LET pbp_header == GetTo(exec, exec_offset)
                pbp_icon_start == exec_offset + exec_size
                pbp_icons == GetFrom(exec, pbp_icon_start)
                with_icons == CursorWrite(compressed, position, pbp_icons[1])
                with_header == CursorWrite(with_icons, 0, pbp_header[1])
                pbp == ref_from_bytes("PbpHeader", with_header, BufferAddr)
            IN  IF pbp_header = None \/ pbp_icons = None
                THEN /\ result' = [tag |-> "Err", err |-> Error("FileTooSmall")]
                     /\ pc' = "done"
                     /\ UNCHANGED <<compressed, position>>
                ELSE IF ~pbp.ok
                THEN /\ result' = Returned(pbp)
                     /\ pc' = "done"
                     /\ compressed' = with_header
                     /\ position' = Len(pbp_header[1])
                ELSE /\ compressed' =
                            PatchU32(with_header, 36, AsU32(exec_offset + exec_comp_size))
                     /\ position' = Len(pbp_header[1])
                     /\ pc' = "return"
                     /\ result' = result
    /\ UNCHANGED <<Caller, input, exec, psp_tag, oe_tag, Locals, psp_header, exec_comp_size,
                   gzip_input>>

\* Lines 213-216
Return ==
    /\ pc = "return"
    /\ result' = [tag |-> "Ok", content |-> compressed, kind |-> exec_kind]
    /\ pc' = "done"
    /\ UNCHANGED <<Caller, input, exec, psp_tag, oe_tag, Locals, psp_header, Output>>

Next ==
    \/ compress
    \/ compress_with_tags
    \/ ReadMagic
    \/ ParseContainer
    \/ ReadElfHeader
    \/ LocateModuleInfo
    \/ Classify
    \/ ReadModuleInfo
    \/ CrossCheck
    \/ BuildHeader
    \/ CountSegments
    \/ ReadSegmentsBss
    \/ SetDecryptMode
    \/ WriteBackModInfo
    \/ SetTags
    \/ FillKeys
    \/ Compress
    \/ FinalizeHeader
    \/ AssemblePbp
    \/ Return

Spec == Init /\ [][Next]_vars

(***************************************************************************)
(* What the properties below speak of                                      *)
(***************************************************************************)

\* compress returned Ok (lines 213-216).
Succeeded == pc = "done" /\ result.tag = "Ok"

\* compress returned the error `kind` (a panic is no error value).
FailedWith(kind) == pc = "done" /\ result.tag = "Err" /\ result.err = Error(kind)

\* The file compress was called on, before the write-back of lines 153-157.
OriginalFile == MkInput(input)

\* The container header of a file (PbpHeader, lines 291-304).
ContainerHeader(file) == ReadPbpHeader(SubSeq(file, 1, size_of("PbpHeader")))

\* The complete output header followed by the compressed payload.
Core == PspHeaderBytes(psp_header) \o Gzip(gzip_input)

(***************************************************************************)
(* Package reassembly                                                      *)
(***************************************************************************)

\* C1: for every container on which compress succeeds, with P the image
\* offset, the output is the P preamble bytes (compared outside the two
\* offset fields that end the container header), then the header and payload,
\* then the trailing assets, and is P + (header + payload) + trailing long.
\* The code does not do this: see C1_Overwritten.
C1_Reassembly ==
    (Succeeded /\ result.kind = "Pbp") =>
        LET P == exec_offset
            trailing == SubSeq(OriginalFile, P + exec_size + 1, Len(OriginalFile))
        IN  /\ Len(result.content) = P + Len(Core) + Len(trailing)
            /\ SubSeq(result.content, 1, 32) = SubSeq(OriginalFile, 1, 32)
            /\ SubSeq(result.content, 41, P) = SubSeq(OriginalFile, 41, P)
            /\ SubSeq(result.content, P + 1, P + Len(Core)) = Core
            /\ SubSeq(result.content, P + Len(Core) + 1, Len(result.content)) = trailing

\* What lines 196-210 produce instead: the preamble written over the first P
\* bytes of the output header, so the output is P bytes shorter.
C1_Overwritten ==
    /\ Succeeded
    /\ result.kind = "Pbp"
    /\ Len(result.content) = Len(Core) + (Len(OriginalFile) - exec_offset - exec_size)
    /\ SubSeq(result.content, exec_offset + 1, Len(Core))
         = SubSeq(Core, exec_offset + 1, Len(Core))
    /\ SubSeq(result.content, 1, 4) = LE32(PBP_HEADER_MAGIC)

\* C2: reassembly patches exactly one field of the container header, the
\* image offset (prx_offset), to where the header and payload start in the
\* output; magic, version, the six asset offsets and the trailing-asset
\* offset are as in the input.  The code patches another field: see
\* C2_PatchesPsarOffset.
C2_PatchesImageOffset ==
    (Succeeded /\ result.kind = "Pbp") =>
        ContainerHeader(result.content)
            = [ContainerHeader(OriginalFile) EXCEPT !.prx_offset = AsU32(exec_offset)]

\* What line 209 writes: psar_offset, set to the image offset plus the
\* payload's size; prx_offset is left as it was.
C2_PatchesPsarOffset ==
    /\ Succeeded
    /\ result.kind = "Pbp"
    /\ ContainerHeader(result.content)
         = [ContainerHeader(OriginalFile) EXCEPT
               !.psar_offset = AsU32(exec_offset + Len(Gzip(gzip_input)))]
    /\ ContainerHeader(result.content) # ContainerHeader(OriginalFile)

\* C3: the bytes handed to the compressor are the embedded image: the whole
\* input for a standalone module, the bytes from the image offset up to the
\* trailing-asset offset for a container; the header's image size (elf_size)
\* is the length of that range.  `exec` is the buffer at the time of the
\* compression.  Fails for containers: see C3_ShortRange.
C3_CompressedRange ==
    (pc \in {"finalize", "assemble", "return"}) =>
        /\ gzip_input =
              IF is_pbp(exec_kind)
              THEN SubSeq(exec, AsUsize(ContainerHeader(exec).prx_offset) + 1,
                          AsUsize(ContainerHeader(exec).psar_offset))
              ELSE exec
        /\ psp_header.elf_size = AsU32(Len(gzip_input))

\* What line 78 makes the range for a container: from the image offset to
\* the image's size, an image offset short of the image's end.
C3_ShortRange ==
    /\ pc = "finalize"
    /\ is_pbp(exec_kind)
    /\ gzip_input = SubSeq(exec, exec_offset + 1, exec_size)
    /\ Len(gzip_input) = exec_size - exec_offset
    /\ psp_header.elf_size = AsU32(exec_size)

(***************************************************************************)
(* Mode derivation on its own: set_decript_mode is public, so it is       *)
(* applied here to every header attribute and every kind                   *)
(***************************************************************************)

\* Every combination of the attribute's flag bits, and of one bit that is no
\* flag.
ModeAttributes ==
    {k + b + v + u + m + o :
        k \in {0, KernelMode}, b \in {0, BootMode}, v \in {0, VshAPI},
        u \in {0, UsbWlanAPI}, m \in {0, MsAPI}, o \in {0, 1}}

\* The devkit version the header holds before the call.
ModeDevkits == {ZeroU32, H32(\H0303, \H0310)}

\* A header with attribute a, about to have its mode derived for a file of
\* kind exec_kind.
InitMode ==
    /\ input = Base
    /\ exec = <<>>
    /\ psp_tag = None
    /\ oe_tag = None
    /\ pc = "decrypt_mode"
    /\ exec_kind \in {"UserPrx", "KernelPrx", "Pbp"}
    /\ exec_size = 0
    /\ exec_offset = 0
    /\ elf_header = ReadElf32Ehdr(Zeros(size_of("Elf32Ehdr")))
    /\ mod_info_phdr = None
    /\ mod_info_shdr = None
    /\ is_kernel_module = FALSE
    /\ mod_info_off = ZeroU32
    /\ mod_info_start = 0
    /\ \E a \in ModeAttributes, d \in ModeDevkits :
          /\ mod_info = [ReadSceModuleInfo(Zeros(size_of("SceModuleInfo")))
                            EXCEPT !.mod_attr = a]
          /\ psp_header = [PspHeaderDefault EXCEPT !.attribute = a, !.devkit_version = d]
    /\ compressed = <<>>
    /\ position = 0
    /\ exec_comp_size = 0
    /\ gzip_input = <<>>
    /\ result = Running
    /\ matches = NoCommandLine
    /\ writes = <<>>
    /\ res = Running
    /\ first = None

NextMode == SetDecryptMode

SpecMode == InitMode /\ [][NextMode]_vars

\* The table of C4, one row per branch: when it applies, the decrypt mode,
\* the devkit version it sets (if any) and whether it sets the MsAPI bit.
ModeTable(attr, package) ==
    LET K == contains(attr, KernelMode)
        B == contains(attr, BootMode)
        V == contains(attr, VshAPI)
        A == contains(attr, AppAPI)
        U == contains(attr, UsbWlanAPI)
    IN  {[when |-> K /\ B, mode |-> DecryptKernel,
          devkit |-> Some(H32(\H0606, \H0110)), ms |-> FALSE],
         [when |-> K /\ ~B, mode |-> DecryptKernel,
          devkit |-> Some(H32(\H0507, \H0110)), ms |-> FALSE],
         [when |-> ~K /\ package /\ V, mode |-> DecryptUpdater,
          devkit |-> None, ms |-> FALSE],
         [when |-> ~K /\ package /\ ~V /\ A, mode |-> DecryptApp,
          devkit |-> None, ms |-> FALSE],
         [when |-> ~K /\ package /\ ~V /\ ~A /\ U, mode |-> DecryptUsbWlan,
          devkit |-> None, ms |-> FALSE],
         [when |-> ~K /\ package /\ ~V /\ ~A /\ ~U, mode |-> DecryptMs,
          devkit |-> Some(H32(\H0602, \H0010)), ms |-> TRUE],
         [when |-> ~K /\ ~package /\ V, mode |-> DecryptVsh,
          devkit |-> None, ms |-> FALSE],
         [when |-> ~K /\ ~package /\ ~V, mode |-> DecryptStandard,
          devkit |-> Some(H32(\H0507, \H0210)), ms |-> FALSE]}

\* The header a row makes of header h.
ModeRowApplied(h, row) ==
    [h EXCEPT !.decrypt_mode = row.mode,
              !.devkit_version = IF row.devkit = None THEN @ ELSE row.devkit[1],
              !.attribute = IF row.ms THEN BitOr(@, MsAPI) ELSE @]

\* C4: set_decript_mode is a function of (is-package, attribute bits) that
\* follows the ordered table: for every header and kind exactly one row
\* applies, and the call changes the header as that row says and in nothing
\* else.
C4_ModeTable ==
    [][SetDecryptMode =>
          LET rows == {row \in ModeTable(psp_header.attribute, is_pbp(exec_kind)) : row.when}
          IN  /\ Cardinality(rows) = 1
              /\ \A row \in rows : psp_header' = ModeRowApplied(psp_header, row)]_vars

\* C4's witness: a container's header with no API category has had the
\* MsAPI bit set and got the Ms mode and its devkit version.
C4_Witness ==
    /\ pc = "write_back"
    /\ exec_kind = "Pbp"
    /\ ~contains(mod_info.mod_attr, MsAPI)
    /\ psp_header.attribute = mod_info.mod_attr + MsAPI
    /\ psp_header.decrypt_mode = DecryptMs
    /\ psp_header.devkit_version = H32(\H0602, \H0010)

(***************************************************************************)
(* The segment count                                                       *)
(***************************************************************************)

\* The file header has been read (line 81) and declares no segment or more
\* than four.
BadSegmentCount ==
    /\ elf_header.e_magic = ELF_MAGIC
    /\ (elf_header.e_phnum = 0 \/ elf_header.e_phnum > 4)

\* The fields of the output header that lines 125-141 assign.
EarlyFields(h) ==
    [h EXCEPT !.attribute = 0, !.module_info_offset = ZeroU32, !.comp_attribute = 0,
              !.module_version_low = 0, !.module_version_high = 0,
              !.module_name = Zeros(28), !.elf_size = ZeroU32, !.entry = ZeroU32]

\* C5 as stated: for every input whose file header declares 0 or more than 4
\* segments compress fails with no output, and at the failure no field of
\* the output header has been written.  The second half fails: see
\* C5_NoSegmentsLate.
C5_FailsBeforeAnyField ==
    (pc = "done" /\ BadSegmentCount) =>
        /\ result.tag # "Ok"
        /\ compressed = <<>>
        /\ psp_header = PspHeaderDefault

\* C5 amended: for every such input compress fails and nothing is written to
\* the output buffer; when the failure is the segment-count check's
\* (NoSegments), the in-memory header holds the record's and the file
\* header's values in the fields of lines 125-141 (comp_attribute is 1) and
\* its default in every other field: segment count, segment arrays, bss
\* size, decrypt mode, devkit version, tags, keys and sizes are unwritten.
C5_NoSegmentsLate ==
    (pc = "done" /\ BadSegmentCount) =>
        /\ result.tag # "Ok"
        /\ compressed = <<>>
        /\ position = 0
        /\ EarlyFields(psp_header) = PspHeaderDefault
        /\ FailedWith("NoSegments") =>
              /\ psp_header.comp_attribute = 1
              /\ psp_header.attribute = mod_info.mod_attr
              /\ psp_header.module_info_offset = mod_info_off
              /\ psp_header.elf_size = AsU32(exec_size)
              /\ psp_header.entry = elf_header.e_entry
              /\ SubSeq(psp_header.module_name, 1, 27) = mod_info.mod_name

\* C5's witness: the segment-count check has failed a file that declares
\* more than four segments, with the header already holding the record's
\* name.
C5_Witness ==
    /\ FailedWith("NoSegments")
    /\ elf_header.e_phnum > 4
    /\ psp_header.comp_attribute = 1
    /\ psp_header.module_name # Zeros(28)

(***************************************************************************)
(* The .bss section                                                        *)
(***************************************************************************)

\* The run has passed every check before read_segments_bss_info (line 149)
\* and is over: the segment count is written only once they have passed.
PassedEarlierChecks == pc = "done" /\ psp_header.num_segments # 0

\* No section of the input is named .bss.
NoBssSection == \A i \in 1..Len(input.names) : input.names[i] # NameBss

\* C6: every input that passes the earlier checks and has no section named
\* .bss fails with BssNotFound and no other error, whatever the other
\* sections' names are.  The code compares four bytes only: see
\* C6_BssPrefixAccepted and C6_ShortNameTooSmall.
C6_BssNotFound ==
    (PassedEarlierChecks /\ NoBssSection) => FailedWith("BssNotFound")

\* What lines 654-662 do with a section named .bss2: its first four bytes
\* read ".bss", so its size becomes bss_size and compress succeeds.
C6_BssPrefixAccepted ==
    /\ Succeeded
    /\ NoBssSection
    /\ input.names = NamesBss2
    /\ psp_header.bss_size = SecSize(input, 3)

\* What they do with a name of fewer than three characters that ends the
\* file: the four-byte read leaves the file, and the error is FileTooSmall.
C6_ShortNameTooSmall ==
    /\ PassedEarlierChecks
    /\ NoBssSection
    /\ input.names = NamesShortLast
    /\ FailedWith("FileTooSmall")

(***************************************************************************)
(* Where the module-info record is read                                    *)
(***************************************************************************)

\* The segments of the input with the module-info shape, from the segment
\* headers the file holds.
SegmentMatches ==
    {i \in 1..elf_header.e_phnum :
        LET phdr == ReadElf32Phdr(ReadBytes(OriginalFile,
                        exec_offset + AsUsize(elf_header.e_phoff)
                            + (i - 1) * size_of("Elf32Phdr"),
                        size_of("Elf32Phdr")))
        IN  phdr.p_type = H32(0, 1) /\ phdr.p_vaddr # phdr.p_paddr}

\* The first of them, if there is one.
FirstSegmentMatch ==
    IF SegmentMatches = {} THEN None
    ELSE Some(ReadElf32Phdr(ReadBytes(OriginalFile,
                  exec_offset + AsUsize(elf_header.e_phoff)
                      + (Least(SegmentMatches) - 1) * size_of("Elf32Phdr"),
                  size_of("Elf32Phdr"))))

\* The locators have returned (lines 96-97).
Located ==
    pc \in {"classify", "read_mod_info", "cross_check", "build_header", "count_segments",
            "segments_bss", "decrypt_mode", "write_back", "tags", "keys", "compress",
            "finalize", "assemble", "return"}

\* The record has been read (lines 108-116).
RecordRead == Located /\ pc \notin {"classify", "read_mod_info"}

\* C7: the segment match is the first segment header of type 1 whose
\* addresses differ; with a segment match the record is read at image start
\* + its physical address with the top bit cleared, whether or not the
\* section exists; with only the section, at image start + the section's
\* file offset; with neither, compress fails with NoModuleInfo.  The section
\* case fails: see C7_SectionOffsetMasked.
C7_Resolution ==
    /\ Located => mod_info_phdr = FirstSegmentMatch
    /\ RecordRead =>
          /\ mod_info_phdr # None \/ mod_info_shdr # None
          /\ mod_info_start =
                exec_offset
                + (IF mod_info_phdr # None
                   THEN AsUsize(ClearTopBit(mod_info_phdr[1].p_paddr))
                   ELSE AsUsize(mod_info_shdr[1].sh_offset))
    /\ FailedWith("NoModuleInfo") => (mod_info_phdr = None /\ mod_info_shdr = None)

\* What lines 109-114 do with a section whose file offset has its top bit
\* set: the bit is cleared as it is for a physical address, and the record
\* is read inside the file.
C7_SectionOffsetMasked ==
    /\ RecordRead
    /\ mod_info_phdr = None
    /\ TopBitSet(mod_info_shdr[1].sh_offset)
    /\ mod_info_start = exec_offset + AsUsize(ClearTopBit(mod_info_shdr[1].sh_offset))
    /\ mod_info_start < Len(exec)

(***************************************************************************)
(* Privilege                                                               *)
(***************************************************************************)

\* The derived privilege signal: a segment match exists and the top bit of
\* its physical address is set.
PrivilegeSignal == mod_info_phdr # None /\ TopBitSet(mod_info_phdr[1].p_paddr)

\* C8: once the record is read, compress fails with MixedPrivileges whenever
\* the derived privilege signal differs from the KernelMode bit of the
\* record's attribute, in either direction; and every successful output has
\* the KernelMode bit set, in the header and in the header's bytes of a
\* standalone output, if and only if its kind is KernelPrx.
C8_CrossCheck ==
    /\ [][(pc = "cross_check"
             /\ PrivilegeSignal # contains(mod_info.mod_attr, KernelMode))
          => (pc' = "done" /\ result' = [tag |-> "Err", err |-> Error("MixedPrivileges")])
         ]_vars
    /\ [](Succeeded =>
            /\ contains(psp_header.attribute, KernelMode) <=> (result.kind = "KernelPrx")
            /\ result.kind # "Pbp" =>
                  (contains(ReadU16(result.content, 4), KernelMode)
                      <=> (result.kind = "KernelPrx")))

\* C8's witness: a file whose segment says kernel and whose record says user
\* has failed with MixedPrivileges.
C8_Witness ==
    /\ FailedWith("MixedPrivileges")
    /\ PrivilegeSignal
    /\ ~contains(mod_info.mod_attr, KernelMode)

\* The record as it is before line 116 reads it.
RecordUnread == ReadSceModuleInfo(Zeros(size_of("SceModuleInfo")))

\* C9: a container whose segment match has the top bit of its physical
\* address set fails with KernelPbp at the classification, before the record
\* is read and before the mode is derived, and never succeeds; the mode is
\* never derived for a container with the KernelMode bit set.
C9_KernelPbp ==
    /\ [][(pc = "classify" /\ exec_kind = "Pbp" /\ PrivilegeSignal)
          => /\ pc' = "done"
             /\ result' = [tag |-> "Err", err |-> Error("KernelPbp")]
             /\ mod_info' = RecordUnread
             /\ psp_header' = PspHeaderDefault
         ]_vars
    /\ [](FailedWith("KernelPbp") =>
            (mod_info = RecordUnread /\ psp_header = PspHeaderDefault))
    /\ []((pc = "done" /\ exec_kind = "Pbp" /\ PrivilegeSignal) => result.tag # "Ok")
    /\ [](pc = "decrypt_mode" =>
            ~(is_pbp(exec_kind) /\ contains(psp_header.attribute, KernelMode)))

\* C9's witness: a container whose record has the KernelMode bit has failed
\* with KernelPbp, its record unread.
C9_Witness ==
    /\ FailedWith("KernelPbp")
    /\ exec_kind = "Pbp"
    /\ PrivilegeSignal
    /\ input.attr = KernelMode
    /\ mod_info = RecordUnread

(***************************************************************************)
(* Tags                                                                    *)
(***************************************************************************)

\* The fixed pair of tags of each kind, as C10 lists them.
FixedTags(kind) ==
    CASE kind = "UserPrx" -> <<H32(\H457B, \H06F0), H32(\H8555, \HABF2)>>
      [] kind = "KernelPrx" -> <<H32(\HDADA, \HDAF0), H32(\H5566, \H8D96)>>
      [] kind = "Pbp" -> <<H32(\HADF3, \H05F0), H32(\H7316, \H308C)>>

\* The pair a successful run must have written.
ExpectedTags ==
    IF psp_tag # None THEN <<psp_tag[1], oe_tag[1]>> ELSE FixedTags(result.kind)

\* C10: in every successful run the header's tag and oe_tag are the caller's
\* pair when one was supplied, whatever the kind, and the fixed pair of the
\* final kind otherwise; a standalone output holds them at bytes 208 and 304,
\* where the header's layout puts them.
C10_Tags ==
    Succeeded =>
        /\ psp_header.tag = ExpectedTags[1]
        /\ psp_header.oe_tag = ExpectedTags[2]
        /\ result.kind # "Pbp" =>
              /\ ReadU32(result.content, 208) = ExpectedTags[1]
              /\ ReadU32(result.content, 304) = ExpectedTags[2]

\* C10's witness: a kernel module packed with the caller's tags.
C10_Witness ==
    /\ Succeeded
    /\ result.kind = "KernelPrx"
    /\ psp_tag # None
    /\ psp_header.tag = psp_tag[1]
    /\ psp_header.tag # FixedTags("KernelPrx")[1]
    /\ psp_header.oe_tag = oe_tag[1]

(***************************************************************************)
(* A packed input                                                          *)
(***************************************************************************)

\* The first four bytes of the file are the output signature, 7E 50 53 50.
StartsWithSignature ==
    Len(OriginalFile) >= 4 /\ SubSeq(OriginalFile, 1, 4) = <<126, 80, 83, 80>>

\* C11: every input whose first four bytes are the output signature fails
\* with AlreadyPacked, whatever follows them (nothing, or any bytes): the
\* step that reads the signature ends the run with that error, and at the
\* end of the run nothing else of the file has been looked at.
C11_AlreadyPacked ==
    /\ [][(pc = "read_magic" /\ StartsWithSignature)
          => (pc' = "done" /\ result' = [tag |-> "Err", err |-> Error("AlreadyPacked")])
         ]_vars
    /\ []((pc = "done" /\ StartsWithSignature) =>
            /\ FailedWith("AlreadyPacked")
            /\ exec_kind = "UserPrx"
            /\ exec_offset = 0
            /\ elf_header = ReadElf32Ehdr(Zeros(size_of("Elf32Ehdr")))
            /\ psp_header = PspHeaderDefault
            /\ compressed = <<>>)
    /\ [](FailedWith("AlreadyPacked") => StartsWithSignature)

\* C11's witness: a file that is the four signature bytes and nothing more
\* has failed with AlreadyPacked.
C11_Witness ==
    /\ FailedWith("AlreadyPacked")
    /\ Len(exec) = 4

(***************************************************************************)
(* The overlay constructors on their own: each is called on ranges of      *)
(* every length around the one it needs, at aligned and misaligned         *)
(* addresses                                                               *)
(***************************************************************************)

\* Most records a call asks for.
MaxCount == 2
\* Most bytes a range is longer or shorter than the call needs.
MaxSlack == 1

OverlayTypes == {"Elf32Ehdr", "Elf32Phdr", "Elf32Shdr", "PbpHeader", "SceModuleInfo"}

\* The magic a record of type T must start with, if it has one.
MagicOf(T) ==
    CASE T = "Elf32Ehdr" -> ELF_MAGIC
      [] T = "PbpHeader" -> PBP_HEADER_MAGIC
      [] OTHER -> H32(\H0102, \H0304)

\* A range of n bytes; a valid one starts every record of type T with T's
\* magic.
OverlayRange(T, n, valid) ==
    [i \in 1..n |->
        IF valid /\ (i - 1) % size_of(T) < 4
        THEN LE32(MagicOf(T))[((i - 1) % size_of(T)) + 1]
        ELSE (i * 7) % 251]

\* The lengths of the ranges a call for count records of type T is given.
OverlayLengths(T, count) ==
    {n \in ({0} \cup ((size_of(T) - MaxSlack)..(size_of(T) + MaxSlack))
            \cup ((size_of(T) * count - MaxSlack)..(size_of(T) * count + MaxSlack))) :
        n >= 0}

\* The arguments of a call: the record type, the count (of the array forms),
\* the address the range starts at, its length and whether it is valid.
OverlayCalls ==
    {[T |-> T, count |-> c, addr |-> BufferAddr + a, len |-> n, valid |-> v] :
        T \in OverlayTypes, c \in 0..MaxCount, a \in {0, 1, 2, 4},
        n \in 0..(size_of("SceModuleInfo") * MaxCount + MaxSlack), v \in BOOLEAN}

InitOverlay ==
    /\ input \in {c \in OverlayCalls : c.len \in OverlayLengths(c.T, c.count)}
    /\ exec = OverlayRange(input.T, input.len, input.valid)
    /\ psp_tag = None
    /\ oe_tag = None
    /\ pc = "overlay"
    /\ exec_kind = "UserPrx"
    /\ exec_size = 0
    /\ exec_offset = 0
    /\ elf_header = ReadElf32Ehdr(Zeros(size_of("Elf32Ehdr")))
    /\ mod_info_phdr = None
    /\ mod_info_shdr = None
    /\ is_kernel_module = FALSE
    /\ mod_info_off = ZeroU32
    /\ mod_info_start = 0
    /\ mod_info = ReadSceModuleInfo(Zeros(size_of("SceModuleInfo")))
    /\ psp_header = PspHeaderDefault
    /\ compressed = <<>>
    /\ position = 0
    /\ exec_comp_size = 0
    /\ gzip_input = <<>>
    /\ result = Running
    /\ matches = NoCommandLine
    /\ writes = <<>>
    /\ res = Running
    /\ first = None

\* What a constructor returned.
Constructed(r) == IF r.ok THEN [tag |-> "Ok", value |-> Val(r)] ELSE Returned(r)

\* One action per constructor; pc then names the constructor called.
CallFromBytes ==
    /\ pc = "overlay"
    /\ pc' = "from_bytes"
    /\ result' = Constructed(from_bytes(input.T, exec))
    /\ UNCHANGED <<Caller, input, exec, psp_tag, oe_tag, Locals, psp_header, Output>>

CallFromBytesWithElems ==
    /\ pc = "overlay"
    /\ pc' = "from_bytes_with_elems"
    /\ result' = Constructed(from_bytes_with_elems(input.T, exec, input.count))
    /\ UNCHANGED <<Caller, input, exec, psp_tag, oe_tag, Locals, psp_header, Output>>

CallRefFromBytes ==
    /\ pc = "overlay"
    /\ pc' = "ref_from_bytes"
    /\ result' = Constructed(ref_from_bytes(input.T, exec, input.addr))
    /\ UNCHANGED <<Caller, input, exec, psp_tag, oe_tag, Locals, psp_header, Output>>

CallRefFromBytesWithElems ==
    /\ pc = "overlay"
    /\ pc' = "ref_from_bytes_with_elems"
    /\ result' = Constructed(ref_from_bytes_with_elems(input.T, exec, input.count,
                                                       input.addr))
    /\ UNCHANGED <<Caller, input, exec, psp_tag, oe_tag, Locals, psp_header, Output>>

CallMutFromBytes ==
    /\ pc = "overlay"
    /\ pc' = "mut_from_bytes"
    /\ result' = Constructed(mut_from_bytes(input.T, exec, input.addr))
    /\ UNCHANGED <<Caller, input, exec, psp_tag, oe_tag, Locals, psp_header, Output>>

CallMutFromBytesWithElems ==
    /\ pc = "overlay"
    /\ pc' = "mut_from_bytes_with_elems"
    /\ result' = Constructed(mut_from_bytes_with_elems(input.T, exec, input.count,
                                                       input.addr))
    /\ UNCHANGED <<Caller, input, exec, psp_tag, oe_tag, Locals, psp_header, Output>>

NextOverlay ==
    \/ CallFromBytes
    \/ CallFromBytesWithElems
    \/ CallRefFromBytes
    \/ CallRefFromBytesWithElems
    \/ CallMutFromBytes
    \/ CallMutFromBytesWithElems

SpecOverlay == InitOverlay /\ [][NextOverlay]_vars

\* The constructors, and the number of records the call at pc asked for.
OwnedConstructors == {"from_bytes", "from_bytes_with_elems"}
BorrowedConstructors ==
    {"ref_from_bytes", "ref_from_bytes_with_elems", "mut_from_bytes",
     "mut_from_bytes_with_elems"}
Called == pc \in OwnedConstructors \cup BorrowedConstructors
RecordsAsked ==
    IF pc \in {"from_bytes", "ref_from_bytes", "mut_from_bytes"} THEN 1 ELSE input.count

\* C12: every constructor, given a range shorter than size_of(record) x
\* count, fails with the FromBytes error that carries the range's length as
\* input_len and size_of(record) x count as expected_len, at misaligned
\* addresses too.
C12_TooShort ==
    (Called /\ Len(exec) < size_of(input.T) * RecordsAsked) =>
        result = [tag |-> "Err",
                  err |-> [kind |-> "FromBytes", input_len |-> Len(exec),
                           expected_len |-> Some(size_of(input.T) * RecordsAsked)]]

\* C12's witness: a borrowed array view was asked of a misaligned range one
\* byte short of two records, and the error is the length's.
C12_Witness ==
    /\ pc = "mut_from_bytes_with_elems"
    /\ input.count = 2
    /\ input.addr % 4 # 0
    /\ Len(exec) = 2 * size_of(input.T) - 1
    /\ result.tag = "Err"
    /\ result.err.kind = "FromBytes"

\* The natural alignment of each record: that of its widest field, a u32 in
\* all but SceModuleInfo, which holds pointers.
NaturalAlignment(T) == IF T = "SceModuleInfo" THEN PointerWidth ELSE 4

\* The bytes of a sequence of records of type T, in order.
RECURSIVE RecordsBytes(_, _)
RecordsBytes(T, records) ==
    IF records = <<>> THEN <<>>
    ELSE RecordBytes(T, Head(records)) \o RecordsBytes(T, Tail(records))

\* The bytes of what an owned-copy constructor returned.
CopiedBytes ==
    IF pc = "from_bytes" THEN RecordBytes(input.T, result.value)
    ELSE RecordsBytes(input.T, result.value)

\* C13: on a range long enough whose address is no multiple of the record's
\* natural alignment, every borrowed-view constructor fails with the
\* Alignment error that carries that address and that alignment; the
\* owned-copy constructors never fail on alignment there, succeed whenever
\* the records are valid, and return the range's bytes, byte for byte.
C13_Misaligned ==
    (Called /\ Len(exec) >= size_of(input.T) * RecordsAsked) =>
        /\ (pc \in BorrowedConstructors /\ input.addr % NaturalAlignment(input.T) # 0) =>
              result = [tag |-> "Err",
                        err |-> [kind |-> "Alignment",
                                 align |-> NaturalAlignment(input.T),
                                 addr |-> input.addr]]
        /\ pc \in OwnedConstructors =>
              /\ result.tag = "Err" => result.err.kind # "Alignment"
              /\ input.valid => result.tag = "Ok"
              /\ result.tag = "Ok" =>
                    CopiedBytes = SubSeq(exec, 1, size_of(input.T) * RecordsAsked)

\* C13's witness: an array view of two module-info records was asked at an
\* address that is a multiple of 4 but not of 8, and failed on alignment.
C13_Witness ==
    /\ pc = "ref_from_bytes_with_elems"
    /\ input.T = "SceModuleInfo"
    /\ input.count = 2
    /\ input.addr % 8 = 4
    /\ Len(exec) >= 2 * size_of("SceModuleInfo")
    /\ result.tag = "Err"
    /\ result.err = ErrorAlignment(8, input.addr)

(***************************************************************************)
(* The two sizes                                                           *)
(***************************************************************************)

\* The compressed stream: what the compressor makes of the bytes it was
\* given.
CompressedStream == Gzip(gzip_input)

\* C14: in every successful run the header's comp_size is the number of
\* bytes of the compressed stream and its psp_size is the header's size plus
\* comp_size.  Until the compression has finished both are unset and the
\* space kept for the header holds zeros; once the header has been written
\* there (lines 189-193) the buffer is the header with the final sizes
\* followed by the stream, and a standalone output is exactly that, with the
\* sizes at bytes 176 and 44.
C14_Sizes ==
    /\ pc = "finalize" =>
          /\ psp_header.comp_size = ZeroU32
          /\ psp_header.psp_size = ZeroU32
          /\ compressed = Zeros(size_of("PspHeader")) \o CompressedStream
    /\ (pc \in {"assemble", "return"} \/ Succeeded) =>
          /\ psp_header.comp_size = AsU32(Len(CompressedStream))
          /\ psp_header.psp_size = AsU32(size_of("PspHeader") + Len(CompressedStream))
          /\ exec_comp_size = Len(CompressedStream)
    /\ pc = "assemble" => compressed = PspHeaderBytes(psp_header) \o CompressedStream
    /\ (Succeeded /\ result.kind # "Pbp") =>
          /\ result.content = PspHeaderBytes(psp_header) \o CompressedStream
          /\ ReadU32(result.content, 176) = AsU32(Len(CompressedStream))
          /\ ReadU32(result.content, 44) = AsU32(Len(result.content))

\* C14's witness: a standalone module has been packed, and byte 176 of the
\* output holds the stream's length.
C14_Witness ==
    /\ Succeeded
    /\ result.kind = "UserPrx"
    /\ Len(CompressedStream) > 0
    /\ ReadU32(result.content, 176) = AsU32(Len(result.content) - size_of("PspHeader"))
    /\ psp_header.comp_size = ReadU32(result.content, 176)

(***************************************************************************)
(* The image's type                                                        *)
(***************************************************************************)

\* The file header has been read (line 81): its magic is the one validate
\* asks for.
HeaderRead == elf_header.e_magic = ELF_MAGIC

ExecutableKinds == {"UserPrx", "KernelPrx", "Pbp"}

\* C16: in a run the classification is always one of the three kinds; it is
\* assigned at most once after its initialisation at line 58 (to Pbp when the
\* container is parsed, or to KernelPrx when the privilege is known), so a
\* kind that has been assigned is never replaced; and the kind the run
\* returns is the one held.
C16_ClassifiedOnce ==
    /\ [](exec_kind \in ExecutableKinds)
    /\ [][exec_kind' # exec_kind =>
            /\ exec_kind = "UserPrx"
            /\ \/ pc = "container" /\ exec_kind' = "Pbp"
               \/ pc = "classify" /\ exec_kind' = "KernelPrx"]_vars
    /\ [][pc \notin {"start", "read_magic", "container", "elf_header", "locate", "classify"}
            => exec_kind' = exec_kind]_vars
    /\ [](Succeeded => result.kind = exec_kind)

\* C16's witness: a run that assigned KernelPrx at line 105 has returned with
\* it.
C16_Witness ==
    /\ Succeeded
    /\ is_kernel_module
    /\ exec_kind = "KernelPrx"
    /\ result.kind = "KernelPrx"

(***************************************************************************)
(* The caller: src/src/main.rs, exec                                       *)
(***************************************************************************)

\* psp.rs line 24 has isize::MAX of the 64-bit build; here it is the largest
\* integer the checker holds, far above the length of any file built above.
ISIZE_MAX == 2147483647

\* The paths of the command line: FILE, and the one --output may name.
FilePath == "FILE"
OutputPath == "out"

\* The files the caller is run on.
InputsCaller == InputsContainer \cup InputsOther

\* Lines 24-35: the command line. Verbosity only prints and is left out.
CommandLines ==
    [output : {None, Some(OutputPath)}, dry_run : BOOLEAN,
     tags : {None} \cup {Some(t) : t \in TagPairs}]

InitCaller ==
    /\ input \in InputsCaller
    /\ exec = <<>>
    /\ psp_tag = None
    /\ oe_tag = None
    /\ pc = "exec"
    /\ exec_kind = "UserPrx"
    /\ exec_size = 0
    /\ exec_offset = 0
    /\ elf_header = ReadElf32Ehdr(Zeros(size_of("Elf32Ehdr")))
    /\ mod_info_phdr = None
    /\ mod_info_shdr = None
    /\ is_kernel_module = FALSE
    /\ mod_info_off = ZeroU32
    /\ mod_info_start = 0
    /\ mod_info = ReadSceModuleInfo(Zeros(size_of("SceModuleInfo")))
    /\ psp_header = PspHeaderDefault
    /\ compressed = <<>>
    /\ position = 0
    /\ exec_comp_size = 0
    /\ gzip_input = <<>>
    /\ result = Running
    /\ matches \in CommandLines
    /\ writes = <<>>
    /\ res = Running
    /\ first = None

\* main.rs line 38 and psp.rs lines 36-43: UnkPspExecutable::from_path. The
\* read of the file succeeds or fails as the file system decides.
ExecFromPath ==
    /\ pc = "exec"
    /\ \E readable \in BOOLEAN :
         LET file == MkInput(input)
         IN  IF ~readable
             THEN res' = [tag |-> "Err", err |-> Error("Io")]
                  /\ pc' = "exited" /\ exec' = exec
             ELSE IF Len(file) >= ISIZE_MAX
             THEN res' = [tag |-> "Err", err |-> Error("FileTooBig")]
                  /\ pc' = "exited" /\ exec' = exec
             ELSE res' = res /\ pc' = "exec_compress" /\ exec' = file
    /\ UNCHANGED <<input, psp_tag, oe_tag, Locals, psp_header, Output, result,
                   matches, writes, first>>

\* main.rs lines 40-43: the call of compress or of compress_with_tags.
ExecCompress ==
    /\ pc = "exec_compress"
    /\ IF matches.tags = None
       THEN psp_tag' = None /\ oe_tag' = None
       ELSE psp_tag' = Some(matches.tags[1][1]) /\ oe_tag' = Some(matches.tags[1][2])
    /\ pc' = "read_magic"
    /\ UNCHANGED <<Caller, input, exec, Locals, psp_header, Output, result>>

\* What fs::write was called with.
WriteCall(path, bytes) == [path |-> path, bytes |-> bytes]

\* Lines 40-59 with the dry-run flag not looked at.
ExecWrite_IgnoresDryRun ==
    /\ pc = "done"
    /\ pc' = "exited"
    /\ IF result.tag # "Ok"
       THEN res' = result /\ writes' = writes
       ELSE \E written \in BOOLEAN :
              /\ writes' = Append(writes,
                     WriteCall(IF matches.output # None THEN matches.output[1]
                               ELSE FilePath, result.content))
              /\ res' = IF written THEN [tag |-> "Ok"]
                        ELSE [tag |-> "Err", err |-> Error("Io")]
    /\ UNCHANGED <<input, exec, psp_tag, oe_tag, Locals, psp_header, Output, result,
                   matches, first>>

\* main.rs lines 40-75, from the return of compress on: `?` hands an error
\* on (a panic ends the process), a dry run writes nothing, and otherwise
\* fs::write is called once, on --output's path or on FILE; the write
\* succeeds or fails as the file system decides.
ExecWrite ==
    /\ pc = "done"
    /\ pc' = "exited"
    /\ IF result.tag # "Ok"
       THEN res' = result /\ writes' = writes
       ELSE IF matches.dry_run
       THEN res' = [tag |-> "Ok"] /\ writes' = writes
       ELSE \E written \in BOOLEAN :
              /\ writes' = Append(writes,
                     WriteCall(IF matches.output # None THEN matches.output[1]
                               ELSE FilePath, result.content))
              /\ res' = IF written THEN [tag |-> "Ok"]
                        ELSE [tag |-> "Err", err |-> Error("Io")]
    /\ UNCHANGED <<input, exec, psp_tag, oe_tag, Locals, psp_header, Output, result,
                   matches, first>>

NextCaller ==
    \/ ExecFromPath
    \/ ExecCompress
    \/ ReadMagic
    \/ ParseContainer
    \/ ReadElfHeader
    \/ LocateModuleInfo
    \/ Classify
    \/ ReadModuleInfo
    \/ CrossCheck
    \/ BuildHeader
    \/ CountSegments
    \/ ReadSegmentsBss
    \/ SetDecryptMode
    \/ WriteBackModInfo
    \/ SetTags
    \/ FillKeys
    \/ Compress
    \/ FinalizeHeader
    \/ AssemblePbp
    \/ Return
    \/ ExecWrite

SpecCaller == InitCaller /\ [][NextCaller]_vars

\* compress has returned.
CompressReturned == pc \in {"done", "exited"} /\ result # Running

\* The path a run that writes has to write to.
TargetPath == IF matches.output # None THEN matches.output[1] ELSE FilePath

\* C17: what compress returns is an output buffer (the whole vector the last
\* stage left, header included) with its kind, or an error, never both; the
\* caller calls fs::write in no run where compress failed or --dry-run was
\* given; where compress succeeded without --dry-run it calls it exactly once,
\* with --output's path if given and FILE otherwise, and with the buffer
\* compress returned; and the call is made only once compress has returned
\* its buffer.
C17_NoPartialOutput ==
    /\ [](CompressReturned =>
            \/ /\ DOMAIN result = {"tag", "content", "kind"}
               /\ result.tag = "Ok"
               /\ result.content = compressed
               /\ Len(result.content) >= size_of("PspHeader")
            \/ /\ DOMAIN result = {"tag", "err"}
               /\ result.tag = "Err"
            \/ result = [tag |-> "Panic"])
    /\ [](writes # <<>> =>
            /\ pc = "exited"
            /\ result.tag = "Ok"
            /\ ~matches.dry_run
            /\ writes = <<WriteCall(TargetPath, result.content)>>)
    /\ []((pc = "exited" /\ result.tag = "Ok" /\ ~matches.dry_run) => Len(writes) = 1)
    /\ [][writes' # writes => (pc = "done" /\ result.tag = "Ok")]_vars

\* C17's witness: a run without --dry-run whose compress succeeded has
\* written to --output's path.
C17_Witness ==
    /\ pc = "exited"
    /\ result.tag = "Ok"
    /\ matches.output = Some(OutputPath)
    /\ writes # <<>>
    /\ writes[1].path = OutputPath

(***************************************************************************)
(* The segment arrays                                                      *)
(***************************************************************************)

\* read_segments_bss_info has returned Ok and the header is being completed,
\* or has been returned.
SegmentsRead ==
    \/ pc \in {"decrypt_mode", "write_back", "tags", "keys", "compress", "finalize",
               "assemble", "return"}
    \/ Succeeded

\* The u32 at byte `at` of the i-th segment header of the file as it was
\* given, counting from 1; a segment header is 32 bytes, p_vaddr at 8,
\* p_memsz at 20, p_align at 28.
PhdrField(i, at) ==
    ReadU32(OriginalFile, exec_offset + AsUsize(elf_header.e_phoff) + 32 * (i - 1) + at)

\* C18: with N the file header's segment count, N is 1..4 and is the
\* header's num_segments; for each i <= N, seg_align[i] is the i-th segment
\* header's alignment (its low 16 bits: the field is a u16), seg_addr[i] its
\* virtual address and seg_size[i] its memory size, whatever its type; and
\* the slots past N are zero. A standalone output carries the same values at
\* bytes 60.., 68.. and 84...
C18_SegmentArrays ==
    SegmentsRead =>
        LET N == elf_header.e_phnum
        IN  /\ N \in 1..4
            /\ psp_header.num_segments = N
            /\ \A i \in 1..4 :
                 IF i <= N
                 THEN /\ psp_header.seg_align[i] = PhdrField(i, 28)[2]
                      /\ psp_header.seg_addr[i] = PhdrField(i, 8)
                      /\ psp_header.seg_size[i] = PhdrField(i, 20)
                 ELSE /\ psp_header.seg_align[i] = 0
                      /\ psp_header.seg_addr[i] = ZeroU32
                      /\ psp_header.seg_size[i] = ZeroU32
            /\ (Succeeded /\ result.kind # "Pbp") =>
                 \A i \in 1..4 :
                   /\ ReadU16(result.content, 60 + 2 * (i - 1)) = psp_header.seg_align[i]
                   /\ ReadU32(result.content, 68 + 4 * (i - 1)) = psp_header.seg_addr[i]
                   /\ ReadU32(result.content, 84 + 4 * (i - 1)) = psp_header.seg_size[i]

\* C18's witness: a file of two or three segments whose first is not
\* loadable has been packed, its first slot filled from that segment (whose
\* size is the larger one) and its last slot zero.
C18_Witness ==
    /\ Succeeded
    /\ elf_header.e_phnum \in 2..3
    /\ PhdrField(1, 0) # H32(0, 1)
    /\ psp_header.seg_size[1] = PhdrField(1, 20)
    /\ LessU32(psp_header.seg_size[2], psp_header.seg_size[1])
    /\ psp_header.seg_align[1] # 0
    /\ psp_header.seg_size[4] = ZeroU32

(***************************************************************************)
(* The size of the uninitialized data                                      *)
(***************************************************************************)

\* The sections of the input whose whole name is .bss.
BssSections == {i \in 1..Len(input.names) : input.names[i] = NameBss}

\* C19: once read_segments_bss_info has returned Ok, the header's bss_size
\* is the size of a section whose whole name is .bss; a section whose name
\* only begins with those four bytes does not supply it.
C19_BssLiteral ==
    SegmentsRead => \E i \in BssSections : psp_header.bss_size = SecSize(input, i)

\* What lines 654-662 give for a standalone file whose third section is
\* named .bss2 and that has no section named .bss: the file is packed, and
\* bytes 56..59 of the output are the size of .bss2.
C19_Bss2SizeWritten ==
    /\ Succeeded
    /\ result.kind # "Pbp"
    /\ BssSections = {}
    /\ input.names[3] = NameBss2
    /\ ReadU32(result.content, 56) = SecSize(input, 3)

(***************************************************************************)
(* The write-back of the attribute                                         *)
(***************************************************************************)

\* The compressor has been given its bytes.
CompressionStarted ==
    \/ pc \in {"finalize", "assemble", "return"}
    \/ Succeeded

\* The write-back of lines 153-157 has been made.
WrittenBack == pc \in {"tags", "keys", "compress"} \/ CompressionStarted

\* The two bytes of the record's attribute in the input buffer: mod_attr is
\* the record's first field.
AttributeBytes == {mod_info_start + 1, mod_info_start + 2}

\* C20: once the write-back has been made, the attribute of the record in
\* the input buffer is the header's attribute (with the MsAPI bit where
\* set_decript_mode forced it) and no other byte of the buffer differs from
\* the file as given; the header's attribute does not change afterwards; and
\* the bytes given to the compressor hold the record's attribute field, with
\* the header's attribute in it.
C20_WriteBack ==
    /\ WrittenBack =>
         /\ ReadU16(exec, mod_info_start) = psp_header.attribute
         /\ Len(exec) = Len(OriginalFile)
         /\ \A i \in 1..Len(exec) : i \notin AttributeBytes => exec[i] = OriginalFile[i]
    /\ CompressionStarted =>
         /\ gzip_input = SubSeq(exec, exec_offset + 1, exec_size)
         /\ mod_info_start - exec_offset + 2 <= Len(gzip_input)
         /\ ReadU16(gzip_input, mod_info_start - exec_offset) = psp_header.attribute

\* What lines 78 and 174 give for a container whose assets before the image
\* are longer than what follows the record in the image: the MsAPI bit is
\* forced and written back into the buffer, the file is packed, and the
\* bytes given to the compressor end before the record begins.
C20_RecordNotCompressed ==
    /\ Succeeded
    /\ result.kind = "Pbp"
    /\ contains(psp_header.attribute, MsAPI)
    /\ ~contains(ReadU16(OriginalFile, mod_info_start), MsAPI)
    /\ ReadU16(exec, mod_info_start) = psp_header.attribute
    /\ gzip_input = SubSeq(exec, exec_offset + 1, exec_size)
    /\ exec_size <= mod_info_start

(***************************************************************************)
(* Two calls on the same bytes and tags                                    *)
(***************************************************************************)

\* A second call of compress_impl (lines 54-60) on the bytes and with the
\* tags of the call that has just returned, whose outcome is kept in `first`;
\* every local and the output vector start afresh, and the generator of
\* line 163 is seeded anew by FillKeys.
Again ==
    /\ pc = "done"
    /\ first = None
    /\ first' = Some(result)
    /\ exec' = MkInput(input)
    /\ pc' = "read_magic"
    /\ exec_kind' = "UserPrx"
    /\ exec_size' = 0
    /\ exec_offset' = 0
    /\ elf_header' = ReadElf32Ehdr(Zeros(size_of("Elf32Ehdr")))
    /\ mod_info_phdr' = None
    /\ mod_info_shdr' = None
    /\ is_kernel_module' = FALSE
    /\ mod_info_off' = ZeroU32
    /\ mod_info_start' = 0
    /\ mod_info' = ReadSceModuleInfo(Zeros(size_of("SceModuleInfo")))
    /\ psp_header' = PspHeaderDefault
    /\ compressed' = <<>>
    /\ position' = 0
    /\ exec_comp_size' = 0
    /\ gzip_input' = <<>>
    /\ result' = Running
    /\ UNCHANGED <<input, psp_tag, oe_tag, matches, writes, res>>

NextTwice ==
    \/ compress
    \/ compress_with_tags
    \/ ReadMagic
    \/ ParseContainer
    \/ ReadElfHeader
    \/ LocateModuleInfo
    \/ Classify
    \/ ReadModuleInfo
    \/ CrossCheck
    \/ BuildHeader
    \/ CountSegments
    \/ ReadSegmentsBss
    \/ SetDecryptMode
    \/ WriteBackModInfo
    \/ SetTags
    \/ FillKeys
    \/ Compress
    \/ FinalizeHeader
    \/ AssemblePbp
    \/ Return
    \/ Again

SpecTwice == Init /\ [][NextTwice]_vars

\* The places (counting from 1) that key_data0, key_data1 and key_data3 of
\* the header serialized at the front of the output vector take: bytes
\* 128..175, 192..207 and 308..335.
KeyPlaces == (129..176) \cup (193..208) \cup (309..336)

\* Two outcomes of compress that are the same error (or the same panic), or
\* two outputs of the same kind and length whose bytes agree at every place
\* outside KeyPlaces.
SameOutcome(a, b) ==
    /\ a.tag = b.tag
    /\ a.tag # "Ok" => a = b
    /\ a.tag = "Ok" =>
         /\ a.kind = b.kind
         /\ Len(a.content) = Len(b.content)
         /\ \A i \in 1..Len(a.content) : i \notin KeyPlaces => a.content[i] = b.content[i]

\* Both calls have returned.
BothReturned == pc = "done" /\ first # None

\* The file is a container whose psar_offset is below its prx_offset: the
\* subtraction of line 74 underflows.
Underflows ==
    /\ Len(OriginalFile) >= size_of("PbpHeader")
    /\ ReadU32(OriginalFile, 0) = PBP_HEADER_MAGIC
    /\ LessU32(ContainerHeader(OriginalFile).psar_offset,
               ContainerHeader(OriginalFile).prx_offset)

\* The two calls were made by one build of the program: on a file that
\* underflows, a build with overflow checks panics at line 74 and a build
\* without them does not, so one panic there and none tells two builds apart.
SameBuild == Underflows => ((first[1].tag = "Panic") <=> (result.tag = "Panic"))

\* C21: when two calls of compress by one build, on the same bytes with the
\* same tag arguments, have both returned, they returned the same error, or
\* outputs of the same classification whose bytes agree outside the three
\* key regions of the header; the seed of the key filler decides nothing
\* else.
C21_SameOutcome == (BothReturned /\ SameBuild) => SameOutcome(first[1], result)

\* C21's witness: two calls on the same bytes and tags have both succeeded
\* with different key filler, so that their outputs differ.
C21_Witness ==
    /\ BothReturned
    /\ result.tag = "Ok"
    /\ first[1].tag = "Ok"
    /\ first[1].content # result.content

(***************************************************************************)
(* How compress ends                                                       *)
(***************************************************************************)

\* C22: every call of compress ends with an output value or with an error of
\* the Error enum; none ends in a panic, whatever the file header's
\* string-table index and section count are and whatever the container's two
\* offsets are.
C22_NoAbort == pc = "done" => result.tag \in {"Ok", "Err"}

\* What line 678 gives for a standalone PRX whose e_shstrndx is its section
\* count or more: `shdrs[e_shstrndx]` is out of bounds and the call panics,
\* in find_segment, the first of the two functions to index.
C22_IndexPanic ==
    /\ pc = "done"
    /\ result = [tag |-> "Panic"]
    /\ exec_kind # "Pbp"
    /\ HeaderRead
    /\ elf_header.e_shstrndx >= elf_header.e_shnum
    /\ mod_info_shdr = None

\* The same with no section at all: index 0 of an empty vector.
C22_NoSectionPanic ==
    /\ pc = "done"
    /\ result = [tag |-> "Panic"]
    /\ HeaderRead
    /\ elf_header.e_shnum = 0
    /\ elf_header.e_shstrndx = 0

\* What line 74 gives, under overflow checks, for a container whose
\* psar_offset is below its prx_offset: the subtraction panics.
C22_UnderflowPanic ==
    /\ pc = "done"
    /\ result = [tag |-> "Panic"]
    /\ Underflows
    /\ ~HeaderRead

=============================================================================
